---------------------------- MODULE Spec2Model ----------------------------
(***************************************************************************)
(* A model of the tsch-sim example harnesses:                              *)
(*   examples/niharika-ttp-smart-home/experiment.py          ("static")    *)
(*   examples/niharika-ttp-smart-home/generate-network-with-mobility.py    *)
(*                                                           ("mobile")    *)
(*   examples/result-visualization/experiment.py             ("viz")       *)
(*                                                                         *)
(* Conventions.                                                            *)
(*  - A Python str is a sequence of string tokens (Text); str(n) is the    *)
(*    decimal digit sequence of n, so "13" is <<"1","3">>.                 *)
(*  - An option value is a record [t, nl, s, items]: t the Python type,    *)
(*    nl whether the text holds a newline, s the scalar text, items the    *)
(*    entries of a list that the code joins into one multi-line string.    *)
(*  - A Python dict is a function on its key set.                          *)
(*  - round(r*cos(2*pi*k/n) + ...) is kept symbolic: a coordinate pair is  *)
(*    the polar data (radius, k, n) of its centre and of its offset.       *)
(*  - Python floats are modelled by exact rationals <<num, den>>.          *)
(***************************************************************************)
EXTENDS Integers, Sequences, FiniteSets, TLC

VARIABLES
    args,          \* the arguments of the Experiment(...) call under study
    exp,           \* the Experiment object that call constructs (NoExp before)
    experiments,   \* the list of loaded results trees handed to the extractors
    call,          \* the extractor call made (NoCall before)
    ret,           \* the outcome of that call (NoRet before)
    pc,            \* where main() stands (NoMain outside a campaign)
    files,         \* the files written: config files, results, charts
    launched,      \* the simulator command lines, in the order they were run
    figure         \* what plot() handed to the plotting library (NoFigure before)

vars == <<args, exp, experiments, call, ret, pc, files, launched, figure>>

(***************************************************************************)
(* Bounds of the model.                                                    *)
(***************************************************************************)
MaxClusters == 3

MaxPerCluster == 4

MaxExps == 2

MaxRuns == 2

(***************************************************************************)
(* Program constants.                                                      *)
(***************************************************************************)
SIM_DURATION_SEC == 3600

STATIC_TTP_RADIUS == 150

STATIC_CLUSTER_RADIUS == 250

MOBILE_TTP_RADIUS == 500

MEMBER_RADIUS == 40

DEFAULT_RSSI == -80

\* 0.9, as the rational 9/10
TTP_TO_GATEWAY_LINK_QUALITY == <<9, 10>>

CLUSTER_TO_TTP_LINK_QUALITY == <<9, 10>>

CLUSTER_INTERNAL_LINK_QUALITY == <<9, 10>>

(***************************************************************************)
(* Text and dict helpers.                                                  *)
(***************************************************************************)
Digits == <<"0", "1", "2", "3", "4", "5", "6", "7", "8", "9">>

RECURSIVE Str(_)
Str(n) == IF n < 10 THEN <<Digits[n + 1]>>
          ELSE Str(n \div 10) \o <<Digits[(n % 10) + 1]>>

StrValue(text) == [t |-> "str", nl |-> FALSE, s |-> text, items |-> <<>>]

IntValue(n) == [t |-> "int", nl |-> FALSE, s |-> Str(n), items |-> <<>>]

\* "[{" + "},\n    {".join(entries) + "}]\n": one string, always with a newline
JoinedList(entries) == [t |-> "str", nl |-> TRUE, s |-> <<>>, items |-> entries]

EmptyDict == [k \in {} |-> 0]

\* d[k] = v
Put(d, k, v) == [x \in (DOMAIN d) \cup {k} |-> IF x = k THEN v ELSE d[x]]

\* for key in src: d[key] = src[key]
Update(d, src) ==
    [x \in (DOMAIN d) \cup (DOMAIN src) |-> IF x \in DOMAIN src THEN src[x] ELSE d[x]]

RECURSIVE Flatten(_)
Flatten(seqs) == IF seqs = <<>> THEN <<>> ELSE Head(seqs) \o Flatten(Tail(seqs))

(***************************************************************************)
(* TopologyGenerator, static variant.                                      *)
(***************************************************************************)
Origin == [radius |-> 0, k |-> 0, n |-> 1]

Polar(radius, k, n) == [radius |-> radius, k |-> k, n |-> n]

\* id = i + 2
ttp_id(i) == i + 2

static_member_id_wrong(num_clusters, num_per_cluster, i, j) ==
    2 + num_clusters + i * num_clusters + j

\* 2 + num_clusters + i * num_per_cluster + j
static_member_id(num_clusters, num_per_cluster, i, j) ==
    2 + num_clusters + i * num_per_cluster + j

\* one f-string of generate_connections: a fixed, directed link
FixedLink(from, to, quality) ==
    [FROM_ID |-> from, TO_ID |-> to, RSSI |-> DEFAULT_RSSI,
     LINK_QUALITY |-> quality, LINK_MODEL |-> "Fixed"]

\* the "# TTP" loop: gateway <-> relay, both directions
ttp_connections(num_clusters) ==
    Flatten([x \in 1..num_clusters |->
        <<FixedLink(1, ttp_id(x - 1), TTP_TO_GATEWAY_LINK_QUALITY),
          FixedLink(ttp_id(x - 1), 1, TTP_TO_GATEWAY_LINK_QUALITY)>>])

\* the "# clusters to TTP" loop: relay <-> each of its members
cluster_to_ttp_connections(num_clusters, num_per_cluster) ==
    Flatten([x \in 1..num_clusters |->
        Flatten([y \in 1..num_per_cluster |->
            LET ttp  == ttp_id(x - 1)
                node == static_member_id(num_clusters, num_per_cluster, x - 1, y - 1)
            IN  <<FixedLink(ttp, node, CLUSTER_TO_TTP_LINK_QUALITY),
                  FixedLink(node, ttp, CLUSTER_TO_TTP_LINK_QUALITY)>>])])

internal_first_k_wrong(j) == j

\* the first k of range(j + 1, num_per_cluster)
internal_first_k(j) == j + 1

\* the "# cluster internal" loop: i, j, and k over range(j + 1, num_per_cluster)
cluster_internal_connections(num_clusters, num_per_cluster) ==
    Flatten([x \in 1..num_clusters |->
        Flatten([y \in 1..num_per_cluster |->
            Flatten([z \in 1..(num_per_cluster - internal_first_k(y - 1)) |->
                LET k     == internal_first_k(y - 1) + z - 1
                    node1 == static_member_id(num_clusters, num_per_cluster, x - 1, y - 1)
                    node2 == static_member_id(num_clusters, num_per_cluster, x - 1, k)
                IN  <<FixedLink(node1, node2, CLUSTER_INTERNAL_LINK_QUALITY),
                      FixedLink(node2, node1, CLUSTER_INTERNAL_LINK_QUALITY)>>])])])

\* the list `connections` before it is joined
static_connections_list(num_clusters, num_per_cluster) ==
    ttp_connections(num_clusters)
    \o cluster_to_ttp_connections(num_clusters, num_per_cluster)
    \o cluster_internal_connections(num_clusters, num_per_cluster)

static_generate_connections(num_clusters, num_per_cluster) ==
    JoinedList(static_connections_list(num_clusters, num_per_cluster))

Position(id, centre, offset) == [ID |-> id, centre |-> centre, offset |-> offset]

\* the list `positions` before it is joined
static_positions_list(num_clusters, num_per_cluster) ==
    <<Position(1, Origin, Origin)>>
    \o [x \in 1..num_clusters |->
          Position(ttp_id(x - 1), Polar(STATIC_TTP_RADIUS, x, num_clusters), Origin)]
    \o Flatten([x \in 1..num_clusters |->
          [y \in 1..num_per_cluster |->
              Position(static_member_id(num_clusters, num_per_cluster, x - 1, y - 1),
                       Polar(STATIC_CLUSTER_RADIUS, x, num_clusters),
                       Polar(MEMBER_RADIUS, y, num_per_cluster))]])

static_generate_positions(num_clusters, num_per_cluster) ==
    JoinedList(static_positions_list(num_clusters, num_per_cluster))

(***************************************************************************)
(* TopologyGenerator, mobile variant.                                      *)
(***************************************************************************)
num_static_wrong(num_total) == (num_total \div 3) * 2

\* num_static = num_total * 2 // 3
num_static(num_total) == (num_total * 2) \div 3

\* returns (num_mobile, num_static)
get_num_mobile_per_cluster(num_total) ==
    [nm |-> num_total - num_static(num_total), ns |-> num_static(num_total)]

TypeRule(type) == [NODE_TYPE |-> type, LINK_MODEL |-> "UDGM"]

TypePairRule(from, to) ==
    [FROM_NODE_TYPE |-> from, TO_NODE_TYPE |-> to, LINK_MODEL |-> "UDGM"]

\* the list `connections` before it is joined
mobile_connections_list(num_clusters, num_per_cluster) ==
    ttp_connections(num_clusters)
    \o <<TypeRule("mobile_leaf_nodes"),
         TypeRule("static_leaf_nodes"),
         TypePairRule("static_leaf_nodes", "router_nodes"),
         TypePairRule("router_nodes", "static_leaf_nodes"),
         TypePairRule("mobile_leaf_nodes", "router_nodes"),
         TypePairRule("router_nodes", "mobile_leaf_nodes"),
         TypePairRule("mobile_leaf_nodes", "static_leaf_nodes"),
         TypePairRule("static_leaf_nodes", "mobile_leaf_nodes")>>

mobile_generate_connections(num_clusters, num_per_cluster) ==
    JoinedList(mobile_connections_list(num_clusters, num_per_cluster))

\* position = f'"ID": {next_id}, ...'; next_id += 1; positions.append(position)
emit_position(st, centre, offset) ==
    [positions |-> Append(st.positions, Position(st.next_id, centre, offset)),
     next_id   |-> st.next_id + 1]

\* the "# TTP" loop, from i on
RECURSIVE mobile_ttp_loop(_, _, _)
mobile_ttp_loop(st, i, num_clusters) ==
    IF i >= num_clusters THEN st
    ELSE mobile_ttp_loop(
             emit_position(st, Polar(MOBILE_TTP_RADIUS, i + 1, num_clusters), Origin),
             i + 1, num_clusters)

\* the "# static nodes" loop, from (i, j) on
RECURSIVE mobile_static_loop(_, _, _, _, _)
mobile_static_loop(st, i, j, num_clusters, ns) ==
    IF i >= num_clusters THEN st
    ELSE IF j >= ns THEN mobile_static_loop(st, i + 1, 0, num_clusters, ns)
    ELSE mobile_static_loop(
             emit_position(st, Polar(MOBILE_TTP_RADIUS, i + 1, num_clusters),
                           Polar(MEMBER_RADIUS, j + 1, ns)),
             i, j + 1, num_clusters, ns)

\* the "# mobile nodes" loop, from (i, j) on
RECURSIVE mobile_mobile_loop(_, _, _, _, _)
mobile_mobile_loop(st, i, j, num_clusters, nm) ==
    IF i >= num_clusters THEN st
    ELSE IF j >= nm THEN mobile_mobile_loop(st, i + 1, 0, num_clusters, nm)
    ELSE mobile_mobile_loop(
             emit_position(st, Polar(MOBILE_TTP_RADIUS, i + 1, num_clusters), Origin),
             i, j + 1, num_clusters, nm)

\* the list `positions` before it is joined
mobile_positions_list(num_clusters, num_per_cluster) ==
    LET gateway == emit_position([positions |-> <<>>, next_id |-> 1], Origin, Origin)
        ttps    == mobile_ttp_loop(gateway, 0, num_clusters)
        split   == get_num_mobile_per_cluster(num_per_cluster)
        statics == mobile_static_loop(ttps, 0, 0, num_clusters, split.ns)
        mobiles == mobile_mobile_loop(statics, 0, 0, num_clusters, split.nm)
    IN  mobiles.positions

mobile_generate_positions(num_clusters, num_per_cluster) ==
    JoinedList(mobile_positions_list(num_clusters, num_per_cluster))

(***************************************************************************)
(* Experiment.__init__, the three variants.                                *)
(***************************************************************************)
\* self.results = None, and the value of an option the dict does not hold
None == [none |-> TRUE]

NoExp == [constructed |-> FALSE]

MOBILE_DEFAULT_OPTIONS ==
    [k \in {"NUM_ROUTER_NODES", "NUM_STATIC_LEAF_NODES", "NUM_MOBILE_LEAF_NODES",
            "RANGE_X", "RANGE_Y", "CONNECTIONS", "SIMULATION_DURATION_SEC"} |->
        CASE k \in {"RANGE_X", "RANGE_Y"} -> IntValue(100)
          [] k = "CONNECTIONS" ->
                 [t |-> "list", nl |-> FALSE, s |-> <<"[]">>, items |-> <<>>]
          [] k = "SIMULATION_DURATION_SEC" -> IntValue(SIM_DURATION_SEC)
          [] OTHER -> IntValue(1)]

VIZ_DEFAULT_OPTIONS ==
    [k \in {"RESULTS_DIR", "SCHEDULING_ALGORITHM", "TSCH_SCHEDULE_CONF_DEFAULT_LENGTH",
            "ORCHESTRA_UNICAST_PERIOD", "ORCHESTRA_RULES",
            "ORCHESTRA_UNICAST_SENDER_BASED"} |->
        CASE k = "RESULTS_DIR" -> StrValue(<<"results">>)
          [] k = "SCHEDULING_ALGORITHM" -> StrValue(<<"Orchestra">>)
          [] k = "ORCHESTRA_RULES" ->
                 [t |-> "str", nl |-> TRUE, s |-> <<"[orchestra rules]">>, items |-> <<>>]
          [] k = "ORCHESTRA_UNICAST_SENDER_BASED" -> IntValue(0)
          [] OTHER -> IntValue(7)]

\* self.name
static_name(num_clusters, num_per_cluster) ==
    Str(num_clusters) \o <<"_clusters_">> \o Str(num_per_cluster) \o <<"_nodes">>

mobile_name(num_clusters, num_per_cluster) ==
    static_name(num_clusters, num_per_cluster) \o <<"_mobile">>

\* self.results_dir = "./results-" + name
results_dir_of(name) == <<"./results-">> \o name

static_init_options_wrong(num_clusters, num_per_cluster, options) ==
    LET o1 == Put(EmptyDict, "SIMULATION_DURATION_SEC", IntValue(SIM_DURATION_SEC))
        o2 == Put(o1, "RESULTS_DIR",
                  StrValue(results_dir_of(static_name(num_clusters, num_per_cluster))))
        num_nodes == 1 + num_clusters + num_clusters * num_per_cluster
        o4 == Put(o2, "NUM_NODES", StrValue(Str(num_nodes)))
        o5 == Put(o4, "CONNECTIONS",
                  static_generate_connections(num_clusters, num_per_cluster))
        o6 == Put(o5, "POSITIONS", static_generate_positions(num_clusters, num_per_cluster))
    IN  Update(o6, options)

\* self.options as the static constructor leaves it
static_init_options(num_clusters, num_per_cluster, options) ==
    LET o1 == Put(EmptyDict, "SIMULATION_DURATION_SEC", IntValue(SIM_DURATION_SEC))
        o2 == Put(o1, "RESULTS_DIR",
                  StrValue(results_dir_of(static_name(num_clusters, num_per_cluster))))
        o3 == Update(o2, options)
        num_nodes == 1 + num_clusters + num_clusters * num_per_cluster
        o4 == Put(o3, "NUM_NODES", StrValue(Str(num_nodes)))
        o5 == Put(o4, "CONNECTIONS",
                  static_generate_connections(num_clusters, num_per_cluster))
    IN  Put(o5, "POSITIONS", static_generate_positions(num_clusters, num_per_cluster))

\* self.options as the mobile constructor leaves it
mobile_init_options(num_clusters, num_per_cluster, options) ==
    LET o1 == Put(EmptyDict, "RESULTS_DIR",
                  StrValue(results_dir_of(mobile_name(num_clusters, num_per_cluster))))
        o2 == Update(o1, MOBILE_DEFAULT_OPTIONS)
        o3 == Update(o2, options)
        o4 == Put(o3, "NUM_ROUTER_NODES", StrValue(Str(1 + num_clusters)))
        split == get_num_mobile_per_cluster(num_per_cluster)
        o5 == Put(o4, "NUM_STATIC_LEAF_NODES", StrValue(Str(num_clusters * split.ns)))
        o6 == Put(o5, "NUM_MOBILE_LEAF_NODES", StrValue(Str(num_clusters * split.nm)))
        o7 == Put(o6, "CONNECTIONS",
                  mobile_generate_connections(num_clusters, num_per_cluster))
    IN  Put(o7, "POSITIONS", mobile_generate_positions(num_clusters, num_per_cluster))

\* self.options as the result-visualization constructor leaves it
viz_init_options(name, options) ==
    LET o1 == VIZ_DEFAULT_OPTIONS
        o2 == Update(o1, options)
    IN  Put(o2, "RESULTS_DIR", StrValue(results_dir_of(name)))

Experiment(name, options) ==
    [constructed |-> TRUE, name |-> name, results_dir |-> results_dir_of(name),
     options |-> options, results |-> None]

(***************************************************************************)
(* The constructor calls under study: every shape within the bounds, and   *)
(* every caller options dict over CallerKeys.                              *)
(***************************************************************************)
CallerKeys ==
    {"NUM_NODES", "CONNECTIONS", "POSITIONS", "RESULTS_DIR", "SIMULATION_DURATION_SEC",
     "NUM_ROUTER_NODES", "NUM_MOBILE_LEAF_NODES", "SCHEDULING_ALGORITHM"}

CallerValue(k) == StrValue(<<"caller's ", k>>)

CallerOptions == {[k \in K |-> CallerValue(k)] : K \in SUBSET CallerKeys}

VizNames == {<<"TSCH-min-3">>, <<"TSCH-SB-47">>}

ArgsSet ==
    [variant : {"static", "mobile"}, name : {<<>>}, num_clusters : 1..MaxClusters,
     num_per_cluster : 0..MaxPerCluster, options : CallerOptions]
    \cup
    [variant : {"viz"}, name : VizNames, num_clusters : {0}, num_per_cluster : {0},
     options : CallerOptions]

\* no extractor has been called yet
NoCall ==
    [fn |-> "none", variant |-> "none", metric1_name |-> "none", metric2_name |-> "none",
     default_value |-> <<0, 0>>, function |-> "none", aggregate_function |-> "none"]

NoRet == [status |-> "none", error |-> "none", results |-> <<>>, printed |-> <<>>]

\* main() is not running
NoMain == [at |-> "none", i |-> 0, error |-> "none"]

\* nothing has been written
NoFiles == [f \in {} |-> <<>>]

\* plot() has rendered nothing
NoFigure ==
    [rendered |-> FALSE, error |-> "none", title |-> <<>>, heights |-> <<>>,
     yerr_lower |-> <<>>, yerr_upper |-> <<>>, ylim |-> <<>>, savefig |-> <<>>]

\* no campaign is under way
Idle == pc = NoMain /\ files = NoFiles /\ launched = <<>> /\ figure = NoFigure

InitTopology ==
    /\ args \in ArgsSet
    /\ exp = NoExp
    /\ experiments = <<>>
    /\ call = NoCall
    /\ ret = NoRet
    /\ Idle

\* niharika-ttp-smart-home/experiment.py: Experiment(num_clusters, num_per_cluster, options)
StaticInit ==
    /\ ~exp.constructed
    /\ args.variant = "static"
    /\ exp' = Experiment(static_name(args.num_clusters, args.num_per_cluster),
                         static_init_options(args.num_clusters, args.num_per_cluster,
                                             args.options))
    /\ UNCHANGED <<args, experiments, call, ret, pc, files, launched, figure>>

\* generate-network-with-mobility.py: Experiment(num_clusters, num_per_cluster, options)
MobileInit ==
    /\ ~exp.constructed
    /\ args.variant = "mobile"
    /\ exp' = Experiment(mobile_name(args.num_clusters, args.num_per_cluster),
                         mobile_init_options(args.num_clusters, args.num_per_cluster,
                                             args.options))
    /\ UNCHANGED <<args, experiments, call, ret, pc, files, launched, figure>>

\* result-visualization/experiment.py: Experiment(name, options)
VizInit ==
    /\ ~exp.constructed
    /\ args.variant = "viz"
    /\ exp' = Experiment(args.name, viz_init_options(args.name, args.options))
    /\ UNCHANGED <<args, experiments, call, ret, pc, files, launched, figure>>

NextTopology == StaticInit \/ MobileInit \/ VizInit

SpecTopology == InitTopology /\ [][NextTopology]_vars

(***************************************************************************)
(* Vocabulary of the topology claims, stated without the generators.       *)
(***************************************************************************)
IsNumeral(text) ==
    /\ Len(text) > 0
    /\ \A x \in 1..Len(text) : \E d \in 1..10 : Digits[d] = text[x]

DigitValue(c) == (CHOOSE d \in 1..10 : Digits[d] = c) - 1

RECURSIVE ParseInt(_)
ParseInt(text) ==
    IF Len(text) = 0 THEN 0
    ELSE 10 * ParseInt(SubSeq(text, 1, Len(text) - 1)) + DigitValue(text[Len(text)])

\* the number an option holds, -1 when it is no numeral
OptionNumber(options, key) ==
    IF key \in DOMAIN options /\ IsNumeral(options[key].s)
    THEN ParseInt(options[key].s) ELSE -1

Built(variant) == exp.constructed /\ args.variant = variant

ShapeC == args.num_clusters

ShapeP == args.num_per_cluster

ShapeN == 1 + ShapeC + ShapeC * ShapeP

PositionsOf(e) == e.options["POSITIONS"].items

ConnectionsOf(e) == e.options["CONNECTIONS"].items

(* C1: in the static variant, for every clusterCount >= 1 and               *)
(* perClusterCount >= 0, the position list has exactly                      *)
(* 1 + clusterCount + clusterCount*perClusterCount entries, the k-th entry  *)
(* carries ID k (gateway 1 at the origin, relay i at i+2, member j of       *)
(* cluster i at 2 + clusterCount + i*perClusterCount + j), and the count    *)
(* equals the NUM_NODES option the constructor stores.                      *)
C1_StaticPositionsContiguous ==
    Built("static") =>
        LET pos == PositionsOf(exp)
        IN  /\ Len(pos) = ShapeN
            /\ \A k \in 1..Len(pos) : pos[k].ID = k
            /\ pos[1].centre = Origin /\ pos[1].offset = Origin
            /\ \A i \in 0..(ShapeC - 1) :
                   /\ pos[i + 2].centre = Polar(STATIC_TTP_RADIUS, i + 1, ShapeC)
                   /\ pos[i + 2].offset = Origin
            /\ \A i \in 0..(ShapeC - 1) : \A j \in 0..(ShapeP - 1) :
                   LET m == pos[2 + ShapeC + i * ShapeP + j]
                   IN  /\ m.centre = Polar(STATIC_CLUSTER_RADIUS, i + 1, ShapeC)
                       /\ m.offset = Polar(MEMBER_RADIUS, j + 1, ShapeP)
            /\ OptionNumber(exp.options, "NUM_NODES") = Len(pos)

C1_Witness ==
    /\ Built("static")
    /\ ShapeC = 3 /\ ShapeP = 2
    /\ Len(PositionsOf(exp)) = 10
    /\ "NUM_NODES" \in DOMAIN args.options

Relays == 2..(ShapeC + 1)

\* the members of relay r's cluster, by the numbering rule
MembersOf(r) ==
    {m \in (ShapeC + 2)..ShapeN : (m - (ShapeC + 2)) \div ShapeP = r - 2}

ExpectedLinks ==
    UNION {
        {<<1, r>>, <<r, 1>>}
        \cup {<<r, m>> : m \in MembersOf(r)}
        \cup {<<m, r>> : m \in MembersOf(r)}
        \cup {pr \in MembersOf(r) \X MembersOf(r) : pr[1] # pr[2]}
        : r \in Relays}

LinkPair(c) == <<c.FROM_ID, c.TO_ID>>

(* C2: in the static variant the emitted links are all fixed links and,     *)
(* with every ordered pair appearing exactly once, are precisely            *)
(* gateway<->relay, relay<->own member, and every ordered pair of distinct  *)
(* members of one cluster; no link joins two clusters.                      *)
C2_StaticConnectionsExact ==
    Built("static") =>
        LET conns == ConnectionsOf(exp)
        IN  /\ \A a \in 1..Len(conns) : conns[a].LINK_MODEL = "Fixed"
            /\ \A a, b \in 1..Len(conns) :
                   a # b => LinkPair(conns[a]) # LinkPair(conns[b])
            /\ {LinkPair(conns[a]) : a \in 1..Len(conns)} = ExpectedLinks

C2_Witness ==
    /\ Built("static")
    /\ ShapeC = 2 /\ ShapeP = 3
    /\ \E a, b \in 1..Len(ConnectionsOf(exp)) :
           /\ LinkPair(ConnectionsOf(exp)[a]) = <<4, 6>>
           /\ LinkPair(ConnectionsOf(exp)[b]) = <<6, 4>>

StaticCount == (ShapeP * 2) \div 3

MobileCount == ShapeP - StaticCount

(* C3: in the mobile variant the positions carry the contiguous IDs 1..N,   *)
(* N = 1 + clusterCount + clusterCount*perClusterCount, in the order        *)
(* gateway, relays, static members cluster by cluster, mobile members       *)
(* cluster by cluster, with staticCount = floor(perClusterCount*2/3); and   *)
(* NUM_ROUTER_NODES, NUM_STATIC_LEAF_NODES, NUM_MOBILE_LEAF_NODES equal the *)
(* sizes of those three consecutive ID blocks.                              *)
C3_MobileNumberingMatchesCounts ==
    Built("mobile") =>
        LET pos      == PositionsOf(exp)
            routers  == OptionNumber(exp.options, "NUM_ROUTER_NODES")
            statics  == OptionNumber(exp.options, "NUM_STATIC_LEAF_NODES")
            mobiles  == OptionNumber(exp.options, "NUM_MOBILE_LEAF_NODES")
            centre(i) == Polar(MOBILE_TTP_RADIUS, i + 1, ShapeC)
        IN  /\ Len(pos) = ShapeN
            /\ \A k \in 1..Len(pos) : pos[k].ID = k
            /\ routers = 1 + ShapeC
            /\ statics = ShapeC * StaticCount
            /\ mobiles = ShapeC * MobileCount
            /\ routers + statics + mobiles = Len(pos)
            /\ pos[1].centre = Origin /\ pos[1].offset = Origin
            /\ \A i \in 0..(ShapeC - 1) :
                   pos[i + 2].centre = centre(i) /\ pos[i + 2].offset = Origin
            /\ \A i \in 0..(ShapeC - 1) : \A j \in 0..(StaticCount - 1) :
                   LET m == pos[routers + i * StaticCount + j + 1]
                   IN  /\ m.centre = centre(i)
                       /\ m.offset = Polar(MEMBER_RADIUS, j + 1, StaticCount)
            /\ \A i \in 0..(ShapeC - 1) : \A j \in 0..(MobileCount - 1) :
                   LET m == pos[routers + statics + i * MobileCount + j + 1]
                   IN  m.centre = centre(i) /\ m.offset = Origin

C3_Witness ==
    /\ Built("mobile")
    /\ ShapeC = 2 /\ ShapeP = 4
    /\ OptionNumber(exp.options, "NUM_STATIC_LEAF_NODES") = 4
    /\ OptionNumber(exp.options, "NUM_MOBILE_LEAF_NODES") = 4
    /\ "NUM_ROUTER_NODES" \in DOMAIN args.options

\* the keys each constructor assigns after it has copied the caller's options
AssignedAfterCaller ==
    CASE args.variant = "static" -> {"NUM_NODES", "CONNECTIONS", "POSITIONS"}
      [] args.variant = "mobile" ->
             {"NUM_ROUTER_NODES", "NUM_STATIC_LEAF_NODES", "NUM_MOBILE_LEAF_NODES",
              "CONNECTIONS", "POSITIONS"}
      [] OTHER -> {"RESULTS_DIR"}

\* the value the constructor derives for such a key
LateValue(k) ==
    CASE args.variant = "static" /\ k = "NUM_NODES" -> StrValue(Str(ShapeN))
      [] args.variant = "static" /\ k = "CONNECTIONS" ->
             static_generate_connections(ShapeC, ShapeP)
      [] args.variant = "static" /\ k = "POSITIONS" ->
             static_generate_positions(ShapeC, ShapeP)
      [] args.variant = "mobile" /\ k = "NUM_ROUTER_NODES" -> StrValue(Str(1 + ShapeC))
      [] args.variant = "mobile" /\ k = "NUM_STATIC_LEAF_NODES" ->
             StrValue(Str(ShapeC * StaticCount))
      [] args.variant = "mobile" /\ k = "NUM_MOBILE_LEAF_NODES" ->
             StrValue(Str(ShapeC * MobileCount))
      [] args.variant = "mobile" /\ k = "CONNECTIONS" ->
             mobile_generate_connections(ShapeC, ShapeP)
      [] args.variant = "mobile" /\ k = "POSITIONS" ->
             mobile_generate_positions(ShapeC, ShapeP)
      [] OTHER -> StrValue(<<"./results-">> \o exp.name)

\* what each constructor puts in the dict before it copies the caller's options
EarlyValues ==
    CASE args.variant = "static" ->
             [k \in {"SIMULATION_DURATION_SEC", "RESULTS_DIR"} |->
                 IF k = "RESULTS_DIR" THEN StrValue(<<"./results-">> \o exp.name)
                 ELSE IntValue(SIM_DURATION_SEC)]
      [] args.variant = "mobile" ->
             [k \in (DOMAIN MOBILE_DEFAULT_OPTIONS) \cup {"RESULTS_DIR"} |->
                 IF k = "RESULTS_DIR" THEN StrValue(<<"./results-">> \o exp.name)
                 ELSE MOBILE_DEFAULT_OPTIONS[k]]
      [] OTHER -> VIZ_DEFAULT_OPTIONS

(* C10, as claimed: for every key the caller passes in the options          *)
(* argument, the value stored in the experiment's options map after         *)
(* construction is the caller's value.                                      *)
C10_CallerAlwaysWins ==
    exp.constructed =>
        \A k \in DOMAIN args.options : exp.options[k] = args.options[k]

(* C10, as amended: the precedence is early values (built-in defaults, and  *)
(* RESULTS_DIR in the two smart-home variants) < caller options < the keys  *)
(* the constructor assigns after copying the caller's options, whose stored *)
(* value is the constructor's own whatever the caller passed.               *)
C10_LateAssignmentsWin ==
    exp.constructed =>
        /\ DOMAIN exp.options =
               AssignedAfterCaller \cup (DOMAIN args.options) \cup (DOMAIN EarlyValues)
        /\ \A k \in DOMAIN exp.options :
               exp.options[k] =
                   IF k \in AssignedAfterCaller THEN LateValue(k)
                   ELSE IF k \in DOMAIN args.options THEN args.options[k]
                   ELSE EarlyValues[k]

C10_Witness ==
    /\ Built("static")
    /\ {"NUM_NODES", "RESULTS_DIR", "SIMULATION_DURATION_SEC"} \subseteq DOMAIN args.options
    /\ exp.options["NUM_NODES"] # args.options["NUM_NODES"]
    /\ exp.options["RESULTS_DIR"] = args.options["RESULTS_DIR"]
    /\ exp.options["SIMULATION_DURATION_SEC"] = args.options["SIMULATION_DURATION_SEC"]

(***************************************************************************)
(* Python numbers and None.  A number is the exact rational <<num, den>>,   *)
(* den > 0, in lowest terms; None is PyNone.                                *)
(***************************************************************************)
PyNone == <<0, 0>>

IsNone(v) == v[2] = 0

Num(n) == <<n, 1>>

Abs(n) == IF n < 0 THEN -n ELSE n

RECURSIVE Gcd(_, _)
Gcd(a, b) == IF b = 0 THEN a ELSE Gcd(b, a % b)

\* n / d in lowest terms, d # 0
Rat(n, d) ==
    LET g == Gcd(Abs(n), Abs(d))
        sign == IF d < 0 THEN -1 ELSE 1
    IN  <<sign * (n \div g), sign * (d \div g)>>

RAdd(a, b) == Rat(a[1] * b[2] + b[1] * a[2], a[2] * b[2])

RSub(a, b) == Rat(a[1] * b[2] - b[1] * a[2], a[2] * b[2])

RMul(a, b) == Rat(a[1] * b[1], a[2] * b[2])

\* a / b, b # 0
RDiv(a, b) == Rat(a[1] * b[2], a[2] * b[1])

RLess(a, b) == a[1] * b[2] < b[1] * a[2]

IsZero(a) == a[1] = 0 /\ a[2] # 0

\* the outcome of evaluating an expression: a value, or an exception raised
Ok(v) == [ok |-> TRUE, v |-> v, err |-> "none"]

Raise(e) == [ok |-> FALSE, v |-> PyNone, err |-> e]

\* sum(series), series without None
RECURSIVE Sum(_)
Sum(series) == IF series = <<>> THEN Num(0) ELSE RAdd(Head(series), Sum(Tail(series)))

HasNone(series) == \E x \in 1..Len(series) : IsNone(series[x])

\* def mean(series)
mean(series) ==
    IF Len(series) = 0 THEN Ok(Num(0))
    ELSE IF HasNone(series) THEN Raise("TypeError")
    ELSE Ok(RDiv(Sum(series), Num(Len(series))))

\* the builtin max, passed as aggregate_function in main
py_max(series) ==
    IF Len(series) = 0 THEN Raise("ValueError")
    ELSE IF Len(series) = 1 THEN Ok(series[1])
    ELSE IF HasNone(series) THEN Raise("TypeError")
    ELSE Ok(CHOOSE m \in {series[x] : x \in 1..Len(series)} :
                \A y \in 1..Len(series) : ~RLess(m, series[y]))

\* aggregate_function(series)
aggregate(aggregate_function, series) ==
    IF aggregate_function = "mean" THEN mean(series) ELSE py_max(series)

\* lambda x, y: 100.0 * (1.0 - x / (x + y)) if x + y else 0
pdr_guarded(x, y) ==
    IF IsNone(x) \/ IsNone(y) THEN Raise("TypeError")
    ELSE IF IsZero(RAdd(x, y)) THEN Ok(Num(0))
    ELSE Ok(RMul(Num(100), RSub(Num(1), RDiv(x, RAdd(x, y)))))

\* lambda x, y: 100.0 * x / y if y else 0
par_guarded(x, y) ==
    IF IsNone(y) \/ IsZero(y) THEN Ok(Num(0))
    ELSE IF IsNone(x) THEN Raise("TypeError")
    ELSE Ok(RDiv(RMul(Num(100), x), y))

\* lambda x, y: 100.0 * (1.0 - x / (x + y))
pdr(x, y) ==
    IF IsNone(x) \/ IsNone(y) THEN Raise("TypeError")
    ELSE IF IsZero(RAdd(x, y)) THEN Raise("ZeroDivisionError")
    ELSE Ok(RMul(Num(100), RSub(Num(1), RDiv(x, RAdd(x, y)))))

\* lambda x, y: 100.0 * x / y
par(x, y) ==
    IF IsNone(x) \/ IsNone(y) THEN Raise("TypeError")
    ELSE IF IsZero(y) THEN Raise("ZeroDivisionError")
    ELSE Ok(RDiv(RMul(Num(100), x), y))

\* function(x, y), function one of the lambdas main passes
apply(function, x, y) ==
    CASE function = "pdr_guarded" -> pdr_guarded(x, y)
      [] function = "par_guarded" -> par_guarded(x, y)
      [] function = "pdr" -> pdr(x, y)
      [] OTHER -> par(x, y)

(***************************************************************************)
(* MetricAggregator.  A results tree (exp.results, as json.load returns it) *)
(* is the sequence of its runs in file order, each [id, nodes]; nodes is    *)
(* the sequence of the run's rows in file order, each [key, row]; a row is  *)
(* a dict from metric names to numbers or None.                             *)
(***************************************************************************)
Returned(results, printed) ==
    [status |-> "returned", error |-> "none", results |-> results, printed |-> printed]

Raised(error, printed) ==
    [status |-> "raised", error |-> error, results |-> <<>>, printed |-> printed]

is_skipped_node_wrong(node) == node \in {"global-stats"}

\* if node in ["global-stats", "1"]: continue
is_skipped_node(node) == node \in {"global-stats", "1"}

\* if run == "aggregate-stats": continue
is_skipped_run(run) == run = "aggregate-stats"

lookup_wrong(row, metric_name) ==
    IF metric_name \in DOMAIN row THEN Ok(row[metric_name]) ELSE Ok(PyNone)

\* run_results[node][metric_name]
lookup(row, metric_name) ==
    IF metric_name \in DOMAIN row THEN Ok(row[metric_name]) ELSE Raise("KeyError")

\* if value is None: value = default_value
or_default(value, default_value) == IF IsNone(value) THEN default_value ELSE value

\* extract_metric: the loop over the nodes of one run, from the n-th on
RECURSIVE em_nodes(_, _, _, _, _)
em_nodes(run_results, n, metric_name, default_value, usable_run_results) ==
    IF n > Len(run_results)
    THEN [ok |-> TRUE, err |-> "none", usable |-> usable_run_results]
    ELSE IF is_skipped_node(run_results[n].key)
    THEN em_nodes(run_results, n + 1, metric_name, default_value, usable_run_results)
    ELSE LET value == lookup(run_results[n].row, metric_name)
         IN  IF ~value.ok
             THEN [ok |-> FALSE, err |-> value.err, usable |-> usable_run_results]
             ELSE em_nodes(run_results, n + 1, metric_name, default_value,
                           Append(usable_run_results, or_default(value.v, default_value)))

\* extract_metric: the loop over the runs of one experiment, from the r-th on
RECURSIVE em_runs(_, _, _, _, _, _, _)
em_runs(results, r, metric_name, default_value, aggregate_function, exp_results, printed) ==
    IF r > Len(results)
    THEN [ok |-> TRUE, err |-> "none", exp_results |-> exp_results, printed |-> printed]
    ELSE IF is_skipped_run(results[r].id)
    THEN em_runs(results, r + 1, metric_name, default_value, aggregate_function,
                 exp_results, printed)
    ELSE LET nodes == em_nodes(results[r].nodes, 1, metric_name, default_value, <<>>)
             agg   == aggregate(aggregate_function, nodes.usable)
         IN  IF ~nodes.ok
             THEN [ok |-> FALSE, err |-> nodes.err, exp_results |-> exp_results,
                   printed |-> printed]
             ELSE IF ~agg.ok
             THEN [ok |-> FALSE, err |-> agg.err, exp_results |-> exp_results,
                   printed |-> Append(printed, nodes.usable)]
             ELSE em_runs(results, r + 1, metric_name, default_value, aggregate_function,
                          Append(exp_results, agg.v), Append(printed, nodes.usable))

\* extract_metric: the loop over the experiments, from the e-th on
RECURSIVE em_exps(_, _, _, _, _, _, _)
em_exps(exps, e, metric_name, default_value, aggregate_function, results, printed) ==
    IF e > Len(exps) THEN Returned(results, printed)
    ELSE LET runs == em_runs(exps[e].results, 1, metric_name, default_value, aggregate_function,
                             <<>>, printed)
         IN  IF ~runs.ok THEN Raised(runs.err, runs.printed)
             ELSE em_exps(exps, e + 1, metric_name, default_value, aggregate_function,
                          Append(results, runs.exp_results), runs.printed)

\* def extract_metric(experiments, arguments, aggregate_function=mean)
extract_metric(exps, arguments, aggregate_function) ==
    em_exps(exps, 1, arguments.metric_name, arguments.default_value, aggregate_function,
            <<>>, <<>>)

\* extract_metrics: the loop over the nodes of one run, from the n-th on
RECURSIVE ems_nodes(_, _, _, _, _, _)
ems_nodes(run_results, n, metric1_name, metric2_name, usable1, usable2) ==
    IF n > Len(run_results)
    THEN [ok |-> TRUE, err |-> "none", usable1 |-> usable1, usable2 |-> usable2]
    ELSE IF is_skipped_node(run_results[n].key)
    THEN ems_nodes(run_results, n + 1, metric1_name, metric2_name, usable1, usable2)
    ELSE LET v1 == lookup(run_results[n].row, metric1_name)
             v2 == lookup(run_results[n].row, metric2_name)
         IN  IF ~v1.ok
             THEN [ok |-> FALSE, err |-> v1.err, usable1 |-> usable1, usable2 |-> usable2]
             ELSE IF ~v2.ok
             THEN [ok |-> FALSE, err |-> v2.err, usable1 |-> usable1, usable2 |-> usable2]
             ELSE ems_nodes(run_results, n + 1, metric1_name, metric2_name,
                            Append(usable1, v1.v), Append(usable2, v2.v))

\* extract_metrics: the loop over the runs of one experiment, from the r-th on
RECURSIVE ems_runs(_, _, _, _, _, _, _)
ems_runs(results, r, metric1_name, metric2_name, aggregate_function, exp_results1, exp_results2) ==
    IF r > Len(results)
    THEN [ok |-> TRUE, err |-> "none", r1 |-> exp_results1, r2 |-> exp_results2]
    ELSE IF is_skipped_run(results[r].id)
    THEN ems_runs(results, r + 1, metric1_name, metric2_name, aggregate_function,
                  exp_results1, exp_results2)
    ELSE LET nodes == ems_nodes(results[r].nodes, 1, metric1_name, metric2_name, <<>>, <<>>)
             agg1  == aggregate(aggregate_function, nodes.usable1)
             agg2  == aggregate(aggregate_function, nodes.usable2)
             fail(err) == [ok |-> FALSE, err |-> err, r1 |-> exp_results1,
                           r2 |-> exp_results2]
         IN  IF ~nodes.ok THEN fail(nodes.err)
             ELSE IF ~agg1.ok THEN fail(agg1.err)
             ELSE IF ~agg2.ok THEN fail(agg2.err)
             ELSE ems_runs(results, r + 1, metric1_name, metric2_name, aggregate_function,
                           Append(exp_results1, agg1.v), Append(exp_results2, agg2.v))

combine_pair_wrong(function, x, y) == apply(function, y, x)

\* function(x, y) for x, y in zip(exp_results1, exp_results2)
combine_pair(function, x, y) == apply(function, x, y)

\* [function(x, y) for x, y in zip(exp_results1, exp_results2)], from the x-th pair on
RECURSIVE combine_zip(_, _, _, _, _)
combine_zip(function, exp_results1, exp_results2, x, out) ==
    IF x > Len(exp_results1) \/ x > Len(exp_results2)
    THEN [ok |-> TRUE, err |-> "none", out |-> out]
    ELSE LET v == combine_pair(function, exp_results1[x], exp_results2[x])
         IN  IF ~v.ok THEN [ok |-> FALSE, err |-> v.err, out |-> out]
             ELSE combine_zip(function, exp_results1, exp_results2, x + 1, Append(out, v.v))

\* extract_metrics: the loop over the experiments, from the e-th on
RECURSIVE ems_exps(_, _, _, _, _, _, _)
ems_exps(exps, e, metric1_name, metric2_name, function, aggregate_function, results) ==
    IF e > Len(exps) THEN Returned(results, <<>>)
    ELSE LET runs == ems_runs(exps[e].results, 1, metric1_name, metric2_name, aggregate_function,
                              <<>>, <<>>)
             comb == combine_zip(function, runs.r1, runs.r2, 1, <<>>)
         IN  IF ~runs.ok THEN Raised(runs.err, <<>>)
             ELSE IF ~comb.ok THEN Raised(comb.err, <<>>)
             ELSE ems_exps(exps, e + 1, metric1_name, metric2_name, function,
                           aggregate_function, Append(results, comb.out))

\* def extract_metrics(experiments, arguments, aggregate_function=mean)
extract_metrics(exps, arguments, aggregate_function) ==
    ems_exps(exps, 1, arguments.metric1_name, arguments.metric2_name, arguments.function,
             aggregate_function, <<>>)

(***************************************************************************)
(* MetricAggregator of result-visualization/experiment.py: no aggregate     *)
(* function, no skipped run; the average is total / num_nodes.              *)
(***************************************************************************)
\* total / num_nodes
py_div(total, num_nodes) ==
    IF num_nodes = 0 THEN Raise("ZeroDivisionError") ELSE Ok(RDiv(total, Num(num_nodes)))

\* total += value
py_add(total, value) == IF IsNone(value) THEN Raise("TypeError") ELSE Ok(RAdd(total, value))

\* extract_metric: the loop over the nodes of one run, from the n-th on
RECURSIVE viz_em_nodes(_, _, _, _, _, _)
viz_em_nodes(run_results, n, metric_name, default_value, total, num_nodes) ==
    IF n > Len(run_results)
    THEN [ok |-> TRUE, err |-> "none", total |-> total, num_nodes |-> num_nodes]
    ELSE IF is_skipped_node(run_results[n].key)
    THEN viz_em_nodes(run_results, n + 1, metric_name, default_value, total, num_nodes)
    ELSE LET value == lookup(run_results[n].row, metric_name)
             added == py_add(total, or_default(value.v, default_value))
             fail(err) == [ok |-> FALSE, err |-> err, total |-> total,
                           num_nodes |-> num_nodes]
         IN  IF ~value.ok THEN fail(value.err)
             ELSE IF ~added.ok THEN fail(added.err)
             ELSE viz_em_nodes(run_results, n + 1, metric_name, default_value,
                               added.v, num_nodes + 1)

\* extract_metric: the loop over the runs of one experiment, from the r-th on
RECURSIVE viz_em_runs(_, _, _, _, _)
viz_em_runs(results, r, metric_name, default_value, exp_results) ==
    IF r > Len(results) THEN [ok |-> TRUE, err |-> "none", exp_results |-> exp_results]
    ELSE LET nodes == viz_em_nodes(results[r].nodes, 1, metric_name, default_value,
                                   Num(0), 0)
             avg   == py_div(nodes.total, nodes.num_nodes)
         IN  IF ~nodes.ok
             THEN [ok |-> FALSE, err |-> nodes.err, exp_results |-> exp_results]
             ELSE IF ~avg.ok
             THEN [ok |-> FALSE, err |-> avg.err, exp_results |-> exp_results]
             ELSE viz_em_runs(results, r + 1, metric_name, default_value,
                              Append(exp_results, avg.v))

\* extract_metric: the loop over the experiments, from the e-th on
RECURSIVE viz_em_exps(_, _, _, _, _)
viz_em_exps(exps, e, metric_name, default_value, results) ==
    IF e > Len(exps) THEN Returned(results, <<>>)
    ELSE LET runs == viz_em_runs(exps[e].results, 1, metric_name, default_value, <<>>)
         IN  IF ~runs.ok THEN Raised(runs.err, <<>>)
             ELSE viz_em_exps(exps, e + 1, metric_name, default_value,
                              Append(results, runs.exp_results))

\* def extract_metric(experiments, arguments)
viz_extract_metric(exps, arguments) ==
    viz_em_exps(exps, 1, arguments.metric_name, arguments.default_value, <<>>)

\* extract_metrics: the loop over the nodes of one run, from the n-th on
RECURSIVE viz_ems_nodes(_, _, _, _, _, _, _)
viz_ems_nodes(run_results, n, metric1_name, metric2_name, total1, total2, num_nodes) ==
    IF n > Len(run_results)
    THEN [ok |-> TRUE, err |-> "none", total1 |-> total1, total2 |-> total2,
          num_nodes |-> num_nodes]
    ELSE IF is_skipped_node(run_results[n].key)
    THEN viz_ems_nodes(run_results, n + 1, metric1_name, metric2_name, total1, total2,
                       num_nodes)
    ELSE LET v1 == lookup(run_results[n].row, metric1_name)
             a1 == py_add(total1, v1.v)
             v2 == lookup(run_results[n].row, metric2_name)
             a2 == py_add(total2, v2.v)
             fail(err) == [ok |-> FALSE, err |-> err, total1 |-> total1,
                           total2 |-> total2, num_nodes |-> num_nodes]
         IN  IF ~v1.ok THEN fail(v1.err)
             ELSE IF ~a1.ok THEN fail(a1.err)
             ELSE IF ~v2.ok THEN fail(v2.err)
             ELSE IF ~a2.ok THEN fail(a2.err)
             ELSE viz_ems_nodes(run_results, n + 1, metric1_name, metric2_name,
                                a1.v, a2.v, num_nodes + 1)

\* extract_metrics: the loop over the runs of one experiment, from the r-th on
RECURSIVE viz_ems_runs(_, _, _, _, _, _)
viz_ems_runs(results, r, metric1_name, metric2_name, exp_results1, exp_results2) ==
    IF r > Len(results)
    THEN [ok |-> TRUE, err |-> "none", r1 |-> exp_results1, r2 |-> exp_results2]
    ELSE LET nodes == viz_ems_nodes(results[r].nodes, 1, metric1_name, metric2_name,
                                    Num(0), Num(0), 0)
             avg1  == py_div(nodes.total1, nodes.num_nodes)
             avg2  == py_div(nodes.total2, nodes.num_nodes)
             fail(err) == [ok |-> FALSE, err |-> err, r1 |-> exp_results1,
                           r2 |-> exp_results2]
         IN  IF ~nodes.ok THEN fail(nodes.err)
             ELSE IF ~avg1.ok THEN fail(avg1.err)
             ELSE IF ~avg2.ok THEN fail(avg2.err)
             ELSE viz_ems_runs(results, r + 1, metric1_name, metric2_name,
                               Append(exp_results1, avg1.v), Append(exp_results2, avg2.v))

\* extract_metrics: the loop over the experiments, from the e-th on
RECURSIVE viz_ems_exps(_, _, _, _, _, _)
viz_ems_exps(exps, e, metric1_name, metric2_name, function, results) ==
    IF e > Len(exps) THEN Returned(results, <<>>)
    ELSE LET runs == viz_ems_runs(exps[e].results, 1, metric1_name, metric2_name, <<>>, <<>>)
             comb == combine_zip(function, runs.r1, runs.r2, 1, <<>>)
         IN  IF ~runs.ok THEN Raised(runs.err, <<>>)
             ELSE IF ~comb.ok THEN Raised(comb.err, <<>>)
             ELSE viz_ems_exps(exps, e + 1, metric1_name, metric2_name, function,
                               Append(results, comb.out))

\* def extract_metrics(experiments, arguments)
viz_extract_metrics(exps, arguments) ==
    viz_ems_exps(exps, 1, arguments.metric1_name, arguments.metric2_name,
                 arguments.function, <<>>)

(***************************************************************************)
(* The results trees under study.                                           *)
(***************************************************************************)
MetricNames == {"app_num_lost", "app_num_endpoint_rx"}

\* a row holding (app_num_lost, app_num_endpoint_rx)
Row(lost, rx) ==
    [m \in MetricNames |-> IF m = "app_num_lost" THEN lost ELSE rx]

\* a row without the key app_num_endpoint_rx
RowLostOnly(lost) == [m \in {"app_num_lost"} |-> lost]

\* the rows a node key may hold; "" stands for: the run has no such node
RowsOf(key) ==
    CASE key = "1" -> {Row(Num(10), Num(0))}
      [] key = "2" -> {Row(Num(0), Num(10)), Row(Num(2), Num(2)), RowLostOnly(Num(5))}
      [] key = "3" -> {Row(Num(2), Num(8)), Row(PyNone, Num(8))}
      [] OTHER -> {EmptyDict}

NodeKeys == <<"1", "2", "3", "global-stats">>

\* the nodes of a run: for each key of NodeKeys in order, no row or one of its rows
RECURSIVE RunsOver(_)
RunsOver(keys) ==
    IF keys = <<>> THEN {<<>>}
    ELSE LET rest == RunsOver(Tail(keys))
         IN  rest \cup {<<[key |-> Head(keys), row |-> row]>> \o nodes :
                           row \in RowsOf(Head(keys)), nodes \in rest}

RunKinds == RunsOver(NodeKeys)

\* a tree of n runs: the real runs are numbered "0", "1", ... in order, and the
\* a-th entry (none when a = 0) is the summary row "aggregate-stats"
MakeTree(a, contents) ==
    [x \in 1..Len(contents) |->
        [id    |-> IF x = a THEN "aggregate-stats"
                   ELSE Digits[IF a # 0 /\ x > a THEN x - 1 ELSE x],
         nodes |-> contents[x]]]

\* an Experiment as the extractors see it: self.results, None until load_results
NotLoaded == [loaded |-> FALSE, results |-> <<>>]

Loaded(tree) == [loaded |-> TRUE, results |-> tree]

RECURSIVE TotalRuns(_)
TotalRuns(exps) ==
    IF exps = <<>> THEN 0 ELSE Len(Head(exps).results) + TotalRuns(Tail(exps))

DefaultValues == {Num(10)}

AggregateFunctions == {"mean", "max"}

InitMetrics ==
    /\ args = [variant |-> "none"]
    /\ exp = NoExp
    /\ experiments \in {[x \in 1..ne |-> NotLoaded] : ne \in 1..MaxExps}
    /\ call = NoCall
    /\ ret = NoRet
    /\ Idle

AllLoaded == \A x \in 1..Len(experiments) : experiments[x].loaded

\* main: for exp in experiments: exp.load_results(); the file holds any tree
\* (here: all loaded trees together hold at most MaxRuns runs)
LoadResults ==
    /\ ~AllLoaded
    /\ LET x == CHOOSE y \in 1..Len(experiments) :
                    /\ ~experiments[y].loaded
                    /\ \A z \in 1..(y - 1) : experiments[z].loaded
       IN  \E n \in 0..(MaxRuns - TotalRuns(experiments)) :
           \E a \in 0..n, contents \in [1..n -> RunKinds] :
               experiments' = [experiments EXCEPT ![x] = Loaded(MakeTree(a, contents))]
    /\ UNCHANGED <<args, exp, call, ret, pc, files, launched, figure>>

\* smart-home: results = extract_metric(experiments, [metric_name, default], aggregate)
ExtractMetric ==
    /\ AllLoaded
    /\ call = NoCall
    /\ \E metric_name \in MetricNames, default_value \in DefaultValues,
          aggregate_function \in AggregateFunctions :
          /\ call' = [fn |-> "extract_metric", variant |-> "smart-home",
                      metric1_name |-> metric_name, metric2_name |-> metric_name,
                      default_value |-> default_value, function |-> "none",
                      aggregate_function |-> aggregate_function]
          /\ ret' = extract_metric(experiments,
                                   [metric_name |-> metric_name,
                                    default_value |-> default_value],
                                   aggregate_function)
    /\ UNCHANGED <<args, exp, experiments, pc, files, launched, figure>>

\* smart-home: results = extract_metrics(experiments, [m1, m2, function], aggregate)
ExtractMetrics ==
    /\ AllLoaded
    /\ call = NoCall
    /\ \E function \in {"pdr_guarded", "par_guarded"},
          aggregate_function \in AggregateFunctions :
          /\ call' = [fn |-> "extract_metrics", variant |-> "smart-home",
                      metric1_name |-> "app_num_lost",
                      metric2_name |-> "app_num_endpoint_rx",
                      default_value |-> PyNone, function |-> function,
                      aggregate_function |-> aggregate_function]
          /\ ret' = extract_metrics(experiments,
                                    [metric1_name |-> "app_num_lost",
                                     metric2_name |-> "app_num_endpoint_rx",
                                     function |-> function],
                                    aggregate_function)
    /\ UNCHANGED <<args, exp, experiments, pc, files, launched, figure>>

\* result-visualization: results = extract_metric(experiments, [metric_name, default])
VizExtractMetric ==
    /\ AllLoaded
    /\ call = NoCall
    /\ \E metric_name \in MetricNames, default_value \in DefaultValues :
          /\ call' = [fn |-> "extract_metric", variant |-> "viz",
                      metric1_name |-> metric_name, metric2_name |-> metric_name,
                      default_value |-> default_value, function |-> "none",
                      aggregate_function |-> "mean"]
          /\ ret' = viz_extract_metric(experiments,
                                       [metric_name |-> metric_name,
                                        default_value |-> default_value])
    /\ UNCHANGED <<args, exp, experiments, pc, files, launched, figure>>

\* result-visualization: results = extract_metrics(experiments, [m1, m2, function])
VizExtractMetrics ==
    /\ AllLoaded
    /\ call = NoCall
    /\ \E function \in {"pdr", "par"} :
          /\ call' = [fn |-> "extract_metrics", variant |-> "viz",
                      metric1_name |-> "app_num_lost",
                      metric2_name |-> "app_num_endpoint_rx",
                      default_value |-> PyNone, function |-> function,
                      aggregate_function |-> "mean"]
          /\ ret' = viz_extract_metrics(experiments,
                                        [metric1_name |-> "app_num_lost",
                                         metric2_name |-> "app_num_endpoint_rx",
                                         function |-> function])
    /\ UNCHANGED <<args, exp, experiments, pc, files, launched, figure>>

NextMetrics ==
    LoadResults \/ ExtractMetric \/ ExtractMetrics \/ VizExtractMetric \/ VizExtractMetrics

SpecMetrics == InitMetrics /\ [][NextMetrics]_vars

(***************************************************************************)
(* Vocabulary of the metric claims, stated without the extractors' loops.   *)
(***************************************************************************)
Called(fn) == ret.status # "none" /\ call.fn = fn

ReturnedFrom(fn) == ret.status = "returned" /\ call.fn = fn

IsNodeRow(node) == node.key \notin {"1", "global-stats"}

IsRealRun(run) == run.id # "aggregate-stats"

\* the rows of a run other than "1" and "global-stats", in order
NodeRows(run) == SelectSeq(run.nodes, IsNodeRow)

\* the runs of a tree other than "aggregate-stats", in order
RealRuns(tree) == SelectSeq(tree, IsRealRun)

\* the runs the called extractor iterates over: result-visualization skips none
IteratedRuns(tree) == IF call.variant = "viz" THEN tree ELSE RealRuns(tree)

\* the values of one metric over the node rows of a run, None kept
RawValues(run, metric) ==
    [x \in 1..Len(NodeRows(run)) |-> NodeRows(run)[x].row[metric]]

\* the same with None replaced by the default
DefaultedValues(run, metric, default) ==
    [x \in 1..Len(NodeRows(run)) |->
        IF IsNone(RawValues(run, metric)[x]) THEN default ELSE RawValues(run, metric)[x]]

RequestedMetrics == {call.metric1_name, call.metric2_name}

\* every run of every loaded tree, the summary row "aggregate-stats" included
EveryRun ==
    UNION {{experiments[e].results[r] : r \in 1..Len(experiments[e].results)} :
           e \in 1..Len(experiments)}

RowsOfRun(run) == {NodeRows(run)[x].row : x \in 1..Len(NodeRows(run))}

\* some node row of a real run lacks a requested metric key
AbsentRequested ==
    \E run \in EveryRun : IsRealRun(run) /\
        \E row \in RowsOfRun(run) : ~(RequestedMetrics \subseteq DOMAIN row)

\* some node row of a real run holds None under a requested metric key
NullRequested ==
    \E run \in EveryRun : IsRealRun(run) /\
        \E row \in RowsOfRun(run) : \E m \in RequestedMetrics \cap DOMAIN row :
            IsNone(row[m])

\* some real run has no node row
EmptyRealRun == \E run \in EveryRun : IsRealRun(run) /\ NodeRows(run) = <<>>

\* no node row of any run lacks a requested key
NoKeyAbsent ==
    \A run \in EveryRun : \A row \in RowsOfRun(run) : RequestedMetrics \subseteq DOMAIN row

\* no node row of any run holds None under a requested key
NoNull ==
    \A run \in EveryRun : \A row \in RowsOfRun(run) :
        \A m \in RequestedMetrics \cap DOMAIN row : ~IsNone(row[m])

NoEmptyRun == \A run \in EveryRun : NodeRows(run) # <<>>

IsNumber(v) == v[2] > 0

(* C4: for every run extract_metric processes, the scalar it produces is    *)
(* the aggregate function applied to the sequence holding, for each node    *)
(* key of the run other than "1" and "global-stats", in order, the node's   *)
(* value of the metric with null replaced by the default.                   *)
C4_ExtractMetricScalar ==
    ReturnedFrom("extract_metric") =>
        \A e \in 1..Len(experiments) :
            LET runs == IteratedRuns(experiments[e].results)
            IN  /\ Len(ret.results[e]) = Len(runs)
                /\ \A r \in 1..Len(runs) :
                       ret.results[e][r] =
                           aggregate(call.aggregate_function,
                                     DefaultedValues(runs[r], call.metric1_name,
                                                     call.default_value)).v

\* nodes {2: 5, 3: null} beside rows "1" and "global-stats", default 10, mean: 7.5
C4_Witness ==
    /\ ReturnedFrom("extract_metric")
    /\ call.variant = "smart-home"
    /\ call.aggregate_function = "mean"
    /\ call.metric1_name = "app_num_lost"
    /\ call.default_value = Num(10)
    /\ Len(experiments[1].results) = 1
    /\ LET run == experiments[1].results[1]
       IN  /\ Len(run.nodes) = 4
           /\ RawValues(run, "app_num_lost") = <<Num(5), PyNone>>
    /\ ret.results[1] = <<Rat(15, 2)>>

(* C5, as claimed: extract_metric and extract_metrics skip the run          *)
(* "aggregate-stats" and return one sequence per experiment, in input       *)
(* order, holding exactly one scalar per remaining run.                     *)
C5_OneScalarPerRealRun ==
    ret.status = "returned" =>
        /\ Len(ret.results) = Len(experiments)
        /\ \A e \in 1..Len(experiments) :
               Len(ret.results[e]) = Len(RealRuns(experiments[e].results))

(* C6: for every run extract_metrics processes, the scalar it produces is   *)
(* combineFn(aggregateFn(seq1), aggregateFn(seq2)), seq1 and seq2 the       *)
(* values of metric1 and metric2 over the same node rows in the same order. *)
C6_ExtractMetricsScalar ==
    ReturnedFrom("extract_metrics") =>
        \A e \in 1..Len(experiments) :
            LET runs == IteratedRuns(experiments[e].results)
            IN  /\ Len(ret.results[e]) = Len(runs)
                /\ \A r \in 1..Len(runs) :
                       LET a1 == aggregate(call.aggregate_function,
                                           RawValues(runs[r], call.metric1_name)).v
                           a2 == aggregate(call.aggregate_function,
                                           RawValues(runs[r], call.metric2_name)).v
                       IN  ret.results[e][r] = apply(call.function, a1, a2).v

\* pairs (0, 10) and (2, 8), mean, the guarded PDR function: 90.0
C6_Witness ==
    /\ ReturnedFrom("extract_metrics")
    /\ call.variant = "smart-home"
    /\ call.aggregate_function = "mean"
    /\ call.function = "pdr_guarded"
    /\ Len(experiments[1].results) = 1
    /\ LET run == experiments[1].results[1]
       IN  /\ RawValues(run, "app_num_lost") = <<Num(0), Num(2)>>
           /\ RawValues(run, "app_num_endpoint_rx") = <<Num(10), Num(8)>>
    /\ ret.results[1] = <<Num(90)>>

(* C7, as claimed: when some node row holds null under a requested metric   *)
(* and the trees are otherwise well formed (every node row has the          *)
(* requested keys, every run has a node row), extract_metric and            *)
(* extract_metrics complete and return a number for every run.              *)
C7_NullIsNeverFatal ==
    (ret.status # "none" /\ NullRequested /\ NoKeyAbsent /\ NoEmptyRun) =>
        /\ ret.status = "returned"
        /\ \A e \in 1..Len(ret.results) : \A r \in 1..Len(ret.results[e]) :
               IsNumber(ret.results[e][r])

(* C8, as claimed: with the default aggregation, a run whose only rows are  *)
(* "1" and/or "global-stats" (or that has no row) yields a scalar computed  *)
(* from 0.0 and the extraction does not fail, the trees being otherwise     *)
(* well formed and the combine function guarding its own division.          *)
C8_EmptyRunYieldsZero ==
    (/\ ret.status # "none"
     /\ call.aggregate_function = "mean"
     /\ EmptyRealRun
     /\ NoKeyAbsent
     /\ call.fn = "extract_metrics" => (NoNull /\ call.function \in {"pdr_guarded",
                                                                      "par_guarded"}))
    => /\ ret.status = "returned"
       /\ \A e \in 1..Len(experiments) :
              LET real == RealRuns(experiments[e].results)
              IN  \A r \in 1..Len(real) :
                      (NodeRows(real[r]) = <<>> /\ r <= Len(ret.results[e]))
                          => ret.results[e][r] = Num(0)

(* C9: when a requested metric key is absent from a node row of a real run, *)
(* extract_metric and extract_metrics raise and return no result list, and  *)
(* the call leaves the experiments' results trees unchanged.                *)
C9_AbsentKeyIsHardFailure ==
    [][(call = NoCall /\ call' # NoCall) =>
           /\ experiments' = experiments
           /\ AbsentRequested' => (ret'.status = "raised" /\ ret'.results = <<>>)]_vars

\* the first experiment alone would have produced a scalar; the second lacks the key
C9_Witness ==
    /\ ret.status = "raised"
    /\ ret.error = "KeyError"
    /\ call.fn = "extract_metrics"
    /\ Len(experiments) = 2
    /\ Len(experiments[1].results) = 1
    /\ RawValues(experiments[1].results[1], "app_num_lost") = <<Num(0), Num(2)>>
    /\ RawValues(experiments[1].results[1], "app_num_endpoint_rx") = <<Num(10), Num(8)>>
    /\ Len(experiments[2].results) = 1
    /\ IsRealRun(experiments[2].results[1])
    /\ \E row \in RowsOfRun(experiments[2].results[1]) : "app_num_endpoint_rx" \notin DOMAIN row

(***************************************************************************)
(* The same three statements restricted to the code that meets them.        *)
(***************************************************************************)
\* the smart-home extractors skip "aggregate-stats": one scalar per real run
SmartHomeOneScalarPerRealRun == call.variant = "smart-home" => C5_OneScalarPerRealRun

\* extract_metric, in both variants, recovers from a null by the default
ExtractMetricNullIsNeverFatal == call.fn = "extract_metric" => C7_NullIsNeverFatal

\* the smart-home extractors, whose mean([]) is 0.0, recover from an empty run
SmartHomeEmptyRunYieldsZero == call.variant = "smart-home" => C8_EmptyRunYieldsZero

(***************************************************************************)
(* ConfigRenderer: generate_config_file and Experiment.run.                *)
(* The character '%' is a token of its own, so "%KEY%" is the three tokens *)
(* "%", "KEY", "%".  No option text of the model holds a '%' and no two    *)
(* placeholders of a template share a '%', so the order in which the loop  *)
(* visits the keys does not show in the output.                            *)
(***************************************************************************)
BoolValue(b) ==
    [t |-> "bool", nl |-> FALSE, s |-> IF b THEN <<"True">> ELSE <<"False">>, items |-> <<>>]

\* "%{}%".format(key)
format_placeholder(key) == <<"%", key, "%">>

\* contents[x:].startswith(old)
StartsWith(contents, x, old) ==
    /\ x + Len(old) - 1 <= Len(contents)
    /\ \A y \in 1..Len(old) : contents[x + y - 1] = old[y]

\* str.replace: every occurrence, left to right, without overlap
RECURSIVE replace_from(_, _, _, _)
replace_from(contents, x, old, new) ==
    IF x > Len(contents) THEN <<>>
    ELSE IF StartsWith(contents, x, old)
    THEN new \o replace_from(contents, x + Len(old), old, new)
    ELSE <<contents[x]>> \o replace_from(contents, x + 1, old, new)

\* contents.replace(old, new)
replace(contents, old, new) == replace_from(contents, 1, old, new)

\* one f-string of the generators, as text
entry_text(entry) == <<ToString(entry)>>

\* "},\n    {".join(entries)
RECURSIVE join_entries(_)
join_entries(entries) ==
    IF entries = <<>> THEN <<>>
    ELSE IF Len(entries) = 1 THEN entry_text(entries[1])
    ELSE entry_text(entries[1]) \o <<"},\n    {">> \o join_entries(Tail(entries))

\* the characters of an option value: str(value)
py_str(value) ==
    IF value.items = <<>> THEN value.s
    ELSE <<"[{">> \o join_entries(value.items) \o <<"}]\n">>

\* value.lower(), on the two texts it is applied to
lower(text) ==
    [x \in 1..Len(text) |->
        CASE text[x] = "True" -> "true"
          [] text[x] = "False" -> "false"
          [] OTHER -> text[x]]

\* whether this file's generate_config_file has the branch `if value in ["True", "False"]`
lowers_booleans(variant) == variant \in {"static", "mobile"}

\* lines 126-131: the text a value is embedded as
textual_form(variant, value) ==
    IF value.t = "str" /\ ~value.nl
    THEN <<"\"">> \o py_str(value) \o <<"\"">>
    ELSE IF lowers_booleans(variant) /\ py_str(value) \in {<<"True">>, <<"False">>}
    THEN lower(py_str(value))
    ELSE py_str(value)

\* the keys of a dict, as the sequence `for key in options` visits
RECURSIVE KeySeq(_)
KeySeq(keys) ==
    IF keys = {} THEN <<>>
    ELSE LET k == CHOOSE x \in keys : TRUE IN <<k>> \o KeySeq(keys \ {k})

\* the loop `for key in options`, from the x-th key on
RECURSIVE substitute(_, _, _, _, _)
substitute(variant, contents, options, keys, x) ==
    IF x > Len(keys) THEN contents
    ELSE substitute(variant,
                    replace(contents, format_placeholder(keys[x]),
                            textual_form(variant, options[keys[x]])),
                    options, keys, x + 1)

\* "config-{}.json".format(name)
config_filename(name) == <<"config-">> \o name \o <<".json">>

\* the template file is missing
Unreadable == <<"<no such file>">>

\* generate_config_file(name, options), the template file holding `template`
generate_config_file(variant, template, name, options) ==
    IF template = Unreadable
    THEN [ok |-> FALSE, err |-> "FileNotFoundError", filename |-> <<>>, contents |-> <<>>]
    ELSE [ok |-> TRUE, err |-> "none", filename |-> config_filename(name),
          contents |-> substitute(variant, template, options, KeySeq(DOMAIN options), 1)]

\* open(filename, "w").write(contents)
WriteFile(fs, filename, contents) ==
    [f \in (DOMAIN fs) \cup {filename} |-> IF f = filename THEN contents ELSE fs[f]]

\* " ".join([SIMULATOR, filename])
command_line(filename) == <<"../../tsch-sim.sh", " ">> \o filename

\* os.path.join(self.results_dir, "stats_merged.json")
stats_path(results_dir) == results_dir \o <<"/", "stats_merged.json">>

(***************************************************************************)
(* main(): the campaign.  The inputs are the template file, the caller     *)
(* options of each Experiment and what each simulator run leaves behind.   *)
(***************************************************************************)
\* the option a caller may add to an experiment: every type generate_config_file tells apart
OptionValues ==
    {BoolValue(TRUE), BoolValue(FALSE), StrValue(<<"True">>), StrValue(<<"False">>),
     StrValue(<<"Orchestra">>), IntValue(7),
     [t |-> "str", nl |-> TRUE, s |-> <<"[", "\n", "]">>, items |-> <<>>]}

CampaignOptions == {EmptyDict} \cup {[k \in {"OPT"} |-> v] : v \in OptionValues}

\* the texts the template file may hold
Templates ==
    {<<"{ \"dir\": ", "%", "RESULTS_DIR", "%", ", \"opt\": ", "%", "OPT", "%",
       ", \"links\": ", "%", "CONNECTIONS", "%", " }">>,
     <<"{ \"dir\": ", "%", "RESULTS_DIR", "%", " }">>,
     <<"%", "OPT", "%", " and again ", "%", "OPT", "%">>,
     <<"load 100", "%", " plain text">>,
     Unreadable}

\* the x-th experiment main() constructs
Constructed(variant, x, options) ==
    CASE variant = "static" ->
             Experiment(static_name(1, x), static_init_options(1, x, options))
      [] variant = "mobile" ->
             Experiment(mobile_name(1, x), mobile_init_options(1, x, options))
      [] OTHER ->
             Experiment(<<"TSCH-", Digits[x + 1]>>,
                        viz_init_options(<<"TSCH-", Digits[x + 1]>>, options))

\* where main() goes after the i-th step of a phase of n steps
next_step_wrong(at, i, n, following) ==
    IF i < n THEN [at |-> at, i |-> i, error |-> "none"]
    ELSE [at |-> following, i |-> 1, error |-> "none"]

\* the for loops of main(): the next iteration, or the statement after the loop
next_step(at, i, n, following) ==
    IF i < n THEN [at |-> at, i |-> i + 1, error |-> "none"]
    ELSE [at |-> following, i |-> 1, error |-> "none"]

\* an exception leaves main()
Failed(i, error) == [at |-> "failed", i |-> i, error |-> error]

\* what follows the "run" loop in main()
after_run(variant) == IF variant = "mobile" THEN "done" ELSE "load"

(***************************************************************************)
(* Python float arithmetic as plot() uses it: IEEE 754 binary64, every     *)
(* operation rounded to nearest, ties to even.  A float is the record      *)
(* [neg, m, e] of value (-1)^neg * m * 2^e, where m is a natural number of *)
(* exactly Precision bits written as its limbs base LimbBase, lowest       *)
(* first; zero is FloatZero.  The exponent range is not modelled (no       *)
(* overflow, no subnormals).                                               *)
(***************************************************************************)
\* the significand of a binary64 holds 53 bits
Precision == 53

LimbBits == 12

LimbBase == 2 ^ LimbBits

\* the bits a dividend is extended by before it is divided
QuotientBits == 2 * LimbBits

\* the element of a one-element set; Only({f(v) : v \in {e}}) is f(e) with e
\* evaluated once
Only(S) == CHOOSE y \in S : TRUE

RECURSIVE BigOf(_)
BigOf(n) == IF n = 0 THEN <<>> ELSE <<n % LimbBase>> \o BigOf(n \div LimbBase)

RECURSIVE IntOf(_)
IntOf(big) == IF big = <<>> THEN 0 ELSE big[1] + LimbBase * IntOf(Tail(big))

\* without high zero limbs
RECURSIVE Trim(_)
Trim(big) ==
    IF big = <<>> THEN <<>>
    ELSE IF big[Len(big)] # 0 THEN big
    ELSE Trim(SubSeq(big, 1, Len(big) - 1))

Limb(big, x) == IF x <= Len(big) THEN big[x] ELSE 0

RECURSIVE BigAddFrom(_, _, _, _)
BigAddFrom(a, b, x, carry) ==
    IF x > Len(a) /\ x > Len(b) THEN (IF carry = 0 THEN <<>> ELSE <<carry>>)
    ELSE LET t == Limb(a, x) + Limb(b, x) + carry
         IN  <<t % LimbBase>> \o BigAddFrom(a, b, x + 1, t \div LimbBase)

BigAdd(a, b) == BigAddFrom(a, b, 1, 0)

RECURSIVE BigSubFrom(_, _, _, _)
BigSubFrom(a, b, x, borrow) ==
    IF x > Len(a) THEN <<>>
    ELSE LET t == Limb(a, x) - Limb(b, x) - borrow
         IN  <<(t + LimbBase) % LimbBase>>
             \o BigSubFrom(a, b, x + 1, IF t < 0 THEN 1 ELSE 0)

\* a - b, for a >= b
BigSub(a, b) == Trim(BigSubFrom(a, b, 1, 0))

\* a < b, for a and b without high zero limbs
BigLess(a, b) ==
    IF Len(a) # Len(b) THEN Len(a) < Len(b)
    ELSE \E x \in 1..Len(a) :
            /\ a[x] < b[x]
            /\ \A y \in (x + 1)..Len(a) : a[y] = b[y]

\* a * k, for a small k
RECURSIVE BigMulFrom(_, _, _, _)
BigMulFrom(a, k, x, carry) ==
    IF x > Len(a) THEN (IF carry = 0 THEN <<>> ELSE <<carry>>)
    ELSE LET t == a[x] * k + carry
         IN  <<t % LimbBase>> \o BigMulFrom(a, k, x + 1, t \div LimbBase)

\* long division by a small n, from limb x down: quotient q and remainder r
RECURSIVE BigDivFrom(_, _, _, _, _)
BigDivFrom(a, x, n, r, q) ==
    IF x = 0 THEN [q |-> Trim(q), r |-> r]
    ELSE Only({BigDivFrom(a, x - 1, n, t % n, <<t \div n>> \o q) :
                  t \in {r * LimbBase + a[x]}})

BigDiv(a, n) == BigDivFrom(a, Len(a), n, 0, <<>>)

\* the number of bits of a, a without high zero limbs
BitLen(a) ==
    IF a = <<>> THEN 0
    ELSE LimbBits * (Len(a) - 1)
         + (CHOOSE k \in 1..LimbBits : 2 ^ (k - 1) <= a[Len(a)] /\ a[Len(a)] < 2 ^ k)

\* a * 2^k
ShiftLeft(a, k) ==
    IF a = <<>> THEN <<>>
    ELSE [x \in 1..(k \div LimbBits) |-> 0] \o BigMulFrom(a, 2 ^ (k % LimbBits), 1, 0)

\* a \div 2^k, and whether a nonzero bit was dropped
ShiftRight(a, k) ==
    LET limbs == k \div LimbBits
    IN  IF limbs >= Len(a) THEN [q |-> <<>>, sticky |-> a # <<>>]
        ELSE Only({[q |-> d.q, sticky |-> d.r # 0 \/ \E x \in 1..limbs : a[x] # 0] :
                      d \in {BigDiv(SubSeq(a, limbs + 1, Len(a)), 2 ^ (k % LimbBits))}})

FloatZero == [neg |-> FALSE, m |-> <<>>, e |-> 0]

\* (-1)^neg * (m + a fraction, nonzero iff sticky) * 2^e rounded to Precision
\* bits, to nearest, ties to even; m has no high zero limbs
round(neg, m, sticky, e) ==
    IF m = <<>> THEN FloatZero
    ELSE IF BitLen(m) <= Precision
    THEN [neg |-> neg, m |-> ShiftLeft(m, Precision - BitLen(m)),
          e |-> e - (Precision - BitLen(m))]
    ELSE LET k == BitLen(m) - Precision
             rounded(low, kept) ==
                 LET guard == low.q[1] % 2
                     rest  == sticky \/ low.sticky
                     up    == guard = 1 /\ (rest \/ kept[1] % 2 = 1)
                 IN  IF up THEN BigAdd(kept, <<1>>) ELSE kept
             result(m2) ==
                 IF BitLen(m2) > Precision
                 THEN [neg |-> neg, m |-> ShiftRight(m2, 1).q, e |-> e + k + 1]
                 ELSE [neg |-> neg, m |-> m2, e |-> e + k]
         IN  Only({result(m2) : m2 \in {Only({rounded(low, ShiftRight(low.q, 1).q) :
                                                  low \in {ShiftRight(m, k - 1)}})}})

FloatNeg(a) == IF a.m = <<>> THEN a ELSE [a EXCEPT !.neg = ~a.neg]

\* a + b
FloatAdd(a, b) ==
    IF a.m = <<>> THEN b
    ELSE IF b.m = <<>> THEN a
    ELSE LET e == IF a.e < b.e THEN a.e ELSE b.e
             sum(ma, mb) ==
                 IF a.neg = b.neg THEN [neg |-> a.neg, m |-> BigAdd(ma, mb)]
                 ELSE IF BigLess(ma, mb) THEN [neg |-> b.neg, m |-> BigSub(mb, ma)]
                 ELSE [neg |-> a.neg, m |-> BigSub(ma, mb)]
         IN  Only({round(s.neg, s.m, FALSE, e) :
                      s \in {sum(ShiftLeft(a.m, a.e - e), ShiftLeft(b.m, b.e - e))}})

\* a - b
FloatSub(a, b) == FloatAdd(a, FloatNeg(b))

\* a / n, n a positive int
FloatDivInt(a, n) ==
    Only({round(a.neg, d.q, d.r # 0, a.e - QuotientBits) :
             d \in {BigDiv(ShiftLeft(a.m, QuotientBits), n)}})

\* the float nearest to the number num / den
Float(q) ==
    Only({FloatDivInt(a, q[2]) : a \in {round(q[1] < 0, BigOf(Abs(q[1])), FALSE, 0)}})

\* a < b
FloatLess(a, b) == FloatSub(a, b).neg

\* the whole part of |a| and whether a fraction is left
WholePart(a) ==
    IF a.e >= 0 THEN [q |-> IntOf(ShiftLeft(a.m, a.e)), sticky |-> FALSE]
    ELSE Only({[q |-> IntOf(s.q), sticky |-> s.sticky] : s \in {ShiftRight(a.m, -a.e)}})

\* math.floor(a)
floor(a) ==
    Only({IF a.neg THEN -(w.q + (IF w.sticky THEN 1 ELSE 0)) ELSE w.q :
             w \in {WholePart(a)}})

\* math.ceil(a)
ceil(a) ==
    Only({IF a.neg THEN -w.q ELSE w.q + (IF w.sticky THEN 1 ELSE 0) :
             w \in {WholePart(a)}})

(***************************************************************************)
(* ChartRenderer: plot().  A title is the sequence of its characters.      *)
(***************************************************************************)
\* sub in text
contains(text, sub) == \E x \in 1..Len(text) : StartsWith(text, x, sub)

\* function(experiments, arguments, aggregate_function) / function(experiments, arguments)
call_function(variant, function, exps, arguments, aggregate_function) ==
    CASE variant = "viz" /\ function = "extract_metric" ->
             viz_extract_metric(exps, arguments)
      [] variant = "viz" /\ function = "extract_metrics" ->
             viz_extract_metrics(exps, arguments)
      [] variant # "viz" /\ function = "extract_metric" ->
             extract_metric(exps, arguments, aggregate_function)
      [] OTHER -> extract_metrics(exps, arguments, aggregate_function)

\* the run scalars of one experiment, as the floats they are
RECURSIVE Floats(_)
Floats(result) ==
    IF result = <<>> THEN <<>>
    ELSE Only({<<f>> \o Floats(Tail(result)) : f \in {Float(Head(result))}})

\* sum(result), from the x-th value on, acc the sum so far
RECURSIVE float_sum(_, _, _)
float_sum(series, x, acc) ==
    IF x > Len(series) THEN acc
    ELSE Only({float_sum(series, x + 1, s) : s \in {FloatAdd(acc, series[x])}})

\* min(result), from the x-th value on, best the least value so far
RECURSIVE float_min(_, _, _)
float_min(series, x, best) ==
    IF x > Len(series) THEN best
    ELSE Only({float_min(series, x + 1, b) :
                  b \in {IF FloatLess(series[x], best) THEN series[x] ELSE best}})

\* max(result), from the x-th value on, best the greatest value so far
RECURSIVE float_max(_, _, _)
float_max(series, x, best) ==
    IF x > Len(series) THEN best
    ELSE Only({float_max(series, x + 1, b) :
                  b \in {IF FloatLess(best, series[x]) THEN series[x] ELSE best}})

\* sum(result) / len(result), result not empty
reduce_mean(series) == FloatDivInt(float_sum(series, 1, FloatZero), Len(series))

\* lines 210-213: the loop over results, from the x-th on
RECURSIVE reduce_from(_, _, _, _, _)
reduce_from(results, x, mean_values, min_values, max_values) ==
    IF x > Len(results)
    THEN [ok |-> TRUE, err |-> "none", mean_values |-> mean_values,
          min_values |-> min_values, max_values |-> max_values]
    ELSE IF results[x] = <<>>
    THEN [ok |-> FALSE, err |-> "ZeroDivisionError", mean_values |-> mean_values,
          min_values |-> min_values, max_values |-> max_values]
    ELSE LET reduced(series) ==
                 Only({reduce_from(results, x + 1, mean_values \o <<mean_value>>,
                                   min_values \o <<min_value>>,
                                   max_values \o <<max_value>>) :
                          mean_value \in {reduce_mean(series)},
                          min_value \in {float_min(series, 2, series[1])},
                          max_value \in {float_max(series, 2, series[1])}})
         IN  Only({reduced(series) : series \in {Floats(results[x])}})

lower_bound_wrong(title, total_min_value) ==
    IF contains(title, <<"P", "D", "R">>) THEN 0 ELSE total_min_value

\* lines 229-232: the first argument of pl.ylim
lower_bound(title, total_min_value) ==
    IF contains(title, <<"P", "D", "R">>) THEN total_min_value ELSE 0

\* "plot {}.pdf".format(title)
plot_filename(title) == <<"plot ">> \o title \o <<".pdf">>

\* plot() raised before it rendered anything
NotRendered(title, error) ==
    [rendered |-> FALSE, error |-> error, title |-> title, heights |-> <<>>,
     yerr_lower |-> <<>>, yerr_upper |-> <<>>, ylim |-> <<>>, savefig |-> <<>>]

\* lines 207-235 of plot(), results being what function(...) returned
render(title, results) ==
    LET rendered(r) ==
            LET total_min_value == floor(float_min(r.min_values, 2, r.min_values[1])) - 1
                total_max_value == ceil(float_max(r.max_values, 2, r.max_values[1])) + 1
            IN  IF ~r.ok THEN NotRendered(title, r.err)
                ELSE IF results = <<>> THEN NotRendered(title, "ValueError")
                ELSE [rendered |-> TRUE, error |-> "none", title |-> title,
                      heights |-> r.mean_values,
                      yerr_lower |-> [x \in 1..Len(results) |->
                                         FloatSub(r.mean_values[x], r.min_values[x])],
                      yerr_upper |-> [x \in 1..Len(results) |->
                                         FloatSub(r.max_values[x], r.mean_values[x])],
                      ylim |-> <<lower_bound(title, total_min_value), total_max_value>>,
                      savefig |-> plot_filename(title)]
    IN  Only({rendered(r) : r \in {reduce_from(results, 1, <<>>, <<>>, <<>>)}})

\* plot(title, experiments, function, arguments, aggregate_function): the outcome
\* of the call of function, and what reached the plotting library
plot(variant, title, exps, function, arguments, aggregate_function) ==
    Only({[ret |-> returned,
           figure |-> IF returned.status = "raised" THEN NotRendered(title, returned.error)
                      ELSE render(title, returned.results)] :
             returned \in
                 {call_function(variant, function, exps, arguments, aggregate_function)}})

(***************************************************************************)
(* The charts main() plots, in order.                                      *)
(***************************************************************************)
Chart(title, fn, metric1_name, metric2_name, default_value, function, aggregate_function) ==
    [title |-> title, fn |-> fn, metric1_name |-> metric1_name,
     metric2_name |-> metric2_name, default_value |-> default_value,
     function |-> function, aggregate_function |-> aggregate_function]

\* niharika-ttp-smart-home/experiment.py, main(): the five plot(...) calls
STATIC_CHARTS ==
    <<Chart(<<"A", "p", "p", "l", "i", "c", "a", "t", "i", "o", "n", " ", "P", "D", "R", ",", " ", "%">>,
            "extract_metrics", "app_num_lost", "app_num_endpoint_rx", PyNone, "pdr_guarded", "mean"),
      Chart(<<"L", "i", "n", "k", " ", "l", "a", "y", "e", "r", " ", "P", "A", "R", ",", " ", "%">>,
            "extract_metrics", "mac_parent_acked", "mac_parent_tx_unicast", PyNone, "par_guarded", "mean"),
      Chart(<<"T", "S", "C", "H", " ", "j", "o", "i", "n", "i", "n", "g", " ", "t", "i", "m", "e", ",", " ", "s", "e", "c", "o", "n", "d", "s">>,
            "extract_metric", "tsch_join_time_sec", "tsch_join_time_sec", Num(3600), "none", "mean"),
      Chart(<<"R", "P", "L", " ", "p", "a", "r", "e", "n", "t", " ", "s", "w", "i", "t", "c", "h", "e", "s">>,
            "extract_metric", "routing_num_parent_changes", "routing_num_parent_changes", Num(0), "none", "mean"),
      Chart(<<"R", "o", "u", "t", "i", "n", "g", " ", "j", "o", "i", "n", " ", "t", "i", "m", "e">>,
            "extract_metric", "routing_join_time_sec", "routing_join_time_sec", Num(SIM_DURATION_SEC), "none", "max")>>

\* result-visualization/experiment.py, main(): the five plot(...) calls
VIZ_CHARTS ==
    <<Chart(<<"T", "S", "C", "H", " ", "j", "o", "i", "n", "i", "n", "g", " ", "t", "i", "m", "e", ",", " ", "s", "e", "c", "o", "n", "d", "s">>,
            "extract_metric", "tsch_join_time_sec", "tsch_join_time_sec", Num(3600), "none", "mean"),
      Chart(<<"A", "v", "e", "r", "a", "g", "e", " ", "c", "u", "r", "r", "e", "n", "t", " ", "c", "o", "n", "s", "u", "m", "p", "t", "i", "o", "n", ",", " ", "u", "A">>,
            "extract_metric", "avg_current_joined_uA", "avg_current_joined_uA", Num(0), "none", "mean"),
      Chart(<<"R", "a", "d", "i", "o", " ", "d", "u", "t", "y", " ", "c", "y", "c", "l", "e", ",", " ", "%">>,
            "extract_metric", "radio_duty_cycle_joined", "radio_duty_cycle_joined", Num(0), "none", "mean"),
      Chart(<<"A", "p", "p", "l", "i", "c", "a", "t", "i", "o", "n", " ", "P", "D", "R", ",", " ", "%">>,
            "extract_metrics", "app_num_lost", "app_num_endpoint_rx", PyNone, "pdr", "mean"),
      Chart(<<"L", "i", "n", "k", " ", "l", "a", "y", "e", "r", " ", "P", "A", "R", ",", " ", "%">>,
            "extract_metrics", "mac_parent_acked", "mac_parent_tx_unicast", PyNone, "par", "mean")>>

Charts(variant) == IF variant = "viz" THEN VIZ_CHARTS ELSE STATIC_CHARTS

\* the list `arguments` of a chart, as the extractor it names reads it
arguments_of(chart) ==
    IF chart.fn = "extract_metric"
    THEN [metric_name |-> chart.metric1_name, default_value |-> chart.default_value]
    ELSE [metric1_name |-> chart.metric1_name, metric2_name |-> chart.metric2_name,
          function |-> chart.function]

\* the call of the extractor that plot() makes for a chart
call_of(variant, chart) ==
    [fn |-> chart.fn, variant |-> IF variant = "viz" THEN "viz" ELSE "smart-home",
     metric1_name |-> chart.metric1_name, metric2_name |-> chart.metric2_name,
     default_value |-> chart.default_value, function |-> chart.function,
     aggregate_function |-> chart.aggregate_function]

(***************************************************************************)
(* What a simulator run may leave in the results directory.                *)
(***************************************************************************)
CampaignMetricNames ==
    {"app_num_lost", "app_num_endpoint_rx", "mac_parent_acked", "mac_parent_tx_unicast",
     "tsch_join_time_sec", "routing_num_parent_changes", "routing_join_time_sec",
     "avg_current_joined_uA", "radio_duty_cycle_joined"}

\* a node that lost packets and never joined the routing tree
RowA ==
    [m \in CampaignMetricNames |->
        CASE m = "app_num_lost" -> Num(2)
          [] m = "app_num_endpoint_rx" -> Num(8)
          [] m = "mac_parent_acked" -> Num(9)
          [] m = "mac_parent_tx_unicast" -> Num(10)
          [] m = "tsch_join_time_sec" -> Rat(25, 2)
          [] m = "routing_num_parent_changes" -> Num(1)
          [] m = "routing_join_time_sec" -> PyNone
          [] m = "avg_current_joined_uA" -> Rat(7, 10)
          [] OTHER -> Rat(1, 10)]

\* a node that lost nothing
RowB ==
    [m \in CampaignMetricNames |->
        CASE m = "app_num_lost" -> Num(0)
          [] m = "app_num_endpoint_rx" -> Num(10)
          [] m = "mac_parent_acked" -> Num(10)
          [] m = "mac_parent_tx_unicast" -> Num(10)
          [] m = "tsch_join_time_sec" -> Num(30)
          [] m = "routing_num_parent_changes" -> Num(0)
          [] m = "routing_join_time_sec" -> Num(40)
          [] m = "avg_current_joined_uA" -> Rat(1, 10)
          [] OTHER -> Rat(1, 10)]

\* a row written by a simulator that does not report routing_join_time_sec
RowShort == [m \in CampaignMetricNames \ {"routing_join_time_sec"} |-> RowB[m]]

Node(key, row) == [key |-> key, row |-> row]

Run(id, nodes) == [id |-> id, nodes |-> nodes]

CampaignTrees ==
    {<<Run("0", <<Node("1", RowB), Node("2", RowA), Node("global-stats", EmptyDict)>>)>>,
     <<Run("0", <<Node("2", RowA)>>),
       Run("1", <<Node("2", RowB), Node("3", RowA)>>),
       Run("aggregate-stats", <<Node("2", RowB)>>)>>,
     <<Run("0", <<Node("2", RowShort)>>)>>}

\* the simulator exits: it has written stats_merged.json, or it has not
SimOutcomes ==
    {[crashed |-> TRUE, tree |-> <<>>]} \cup {[crashed |-> FALSE, tree |-> t] : t \in CampaignTrees}

(***************************************************************************)
(* main(): construct, run, load, plot.  The first experiment is built with  *)
(* caller options, the others with none, as main() builds them.            *)
(***************************************************************************)
InitCampaign ==
    /\ args \in [variant : {"static", "mobile", "viz"}, template : Templates]
    /\ exp = NoExp
    /\ experiments \in
           {[x \in 1..n |->
                Constructed(args.variant, x, IF x = 1 THEN options ELSE EmptyDict)] :
               n \in 1..MaxExps, options \in CampaignOptions}
    /\ call = NoCall
    /\ ret = NoRet
    /\ pc = [at |-> "run", i |-> 1, error |-> "none"]
    /\ files = NoFiles
    /\ launched = <<>>
    /\ figure = NoFigure

\* main(): exp.run() for the next experiment, the simulator run to its exit
RunExperiment ==
    /\ pc.at = "run"
    /\ LET e == experiments[pc.i]
           g == generate_config_file(args.variant, args.template, e.name, e.options)
       IN  IF ~g.ok
           THEN /\ pc' = Failed(pc.i, g.err)
                /\ UNCHANGED <<files, launched>>
           ELSE /\ \E outcome \in SimOutcomes :
                      files' = IF outcome.crashed
                               THEN WriteFile(files, g.filename, g.contents)
                               ELSE WriteFile(WriteFile(files, g.filename, g.contents),
                                              stats_path(e.results_dir), outcome.tree)
                /\ launched' = Append(launched, command_line(g.filename))
                /\ pc' = next_step("run", pc.i, Len(experiments), after_run(args.variant))
    /\ UNCHANGED <<args, exp, experiments, call, ret, figure>>

\* main(): exp.load_results() for the next experiment
LoadExperiment ==
    /\ pc.at = "load"
    /\ LET path == stats_path(experiments[pc.i].results_dir)
       IN  IF path \notin DOMAIN files
           THEN /\ pc' = Failed(pc.i, "FileNotFoundError")
                /\ UNCHANGED experiments
           ELSE /\ experiments' = [experiments EXCEPT ![pc.i].results = files[path]]
                /\ pc' = next_step("load", pc.i, Len(experiments), "plot")
    /\ UNCHANGED <<args, exp, call, ret, files, launched, figure>>

\* main(): the next plot(...) call
PlotChart ==
    /\ pc.at = "plot"
    /\ LET chart == Charts(args.variant)[pc.i]
       IN  \E p \in {plot(args.variant, chart.title, experiments, chart.fn,
                          arguments_of(chart), chart.aggregate_function)} :
           /\ call' = call_of(args.variant, chart)
           /\ ret' = p.ret
           /\ figure' = p.figure
           /\ IF p.figure.rendered
              THEN /\ files' = WriteFile(files, p.figure.savefig, <<"pdf">>)
                   /\ pc' = next_step("plot", pc.i, Len(Charts(args.variant)), "done")
              ELSE /\ pc' = Failed(pc.i, p.figure.error)
                   /\ UNCHANGED files
    /\ UNCHANGED <<args, exp, experiments, launched>>

NextCampaign == RunExperiment \/ LoadExperiment \/ PlotChart

SpecCampaign == InitCampaign /\ [][NextCampaign]_vars

(***************************************************************************)
(* Claims about the config renderer, under SpecCampaign.                   *)
(***************************************************************************)
\* the keys a template may name between two percent signs
TemplateKeys == {"RESULTS_DIR", "OPT", "CONNECTIONS"}

\* the keys whose %KEY% token occurs in contents
Placeholders(contents) ==
    {key \in TemplateKeys : contains(contents, format_placeholder(key))}

\* whether exp.run() got as far as writing the config file / launching the simulator
ConfigWritten(e) == config_filename(e.name) \in DOMAIN files

Launched(e) ==
    \E x \in 1..Len(launched) : launched[x] = command_line(config_filename(e.name))

\* C11: whenever the template holds a %KEY% placeholder the options of an
\* experiment have no entry for, that experiment gets no config file and the
\* simulator is not launched on it; and no config file that was written still
\* holds a %KEY% token.
C11_UnmatchedPlaceholderAborts ==
    \A x \in 1..Len(experiments) :
        LET e == experiments[x]
        IN  /\ Placeholders(args.template) \ DOMAIN e.options # {}
                => ~ConfigWritten(e) /\ ~Launched(e)
            /\ ConfigWritten(e) => Placeholders(files[config_filename(e.name)]) = {}

\* the text the stated rule embeds a value as: lowered if boolean-like, quoted
\* if a str without a newline, verbatim otherwise
stated_form(value) ==
    IF py_str(value) \in {<<"True">>, <<"False">>} THEN lower(py_str(value))
    ELSE IF value.t = "str" /\ ~value.nl THEN <<"\"">> \o py_str(value) \o <<"\"">>
    ELSE py_str(value)

\* the template with every %KEY% of keys[x..] replaced by the stated form
RECURSIVE StatedContents(_, _, _, _)
StatedContents(contents, options, keys, x) ==
    IF x > Len(keys) THEN contents
    ELSE StatedContents(replace(contents, format_placeholder(keys[x]),
                                stated_form(options[keys[x]])),
                        options, keys, x + 1)

\* C12: every config file written holds, for every key of the options, the
\* value in its stated textual form: a str without a newline in double quotes,
\* a str with a newline verbatim, and True / False, str or bool, as the bare
\* tokens true / false, in every variant of the renderer.
C12_TextualFormAsStated ==
    \A x \in 1..Len(experiments) :
        LET e == experiments[x]
        IN  ConfigWritten(e)
                => files[config_filename(e.name)]
                       = StatedContents(args.template, e.options,
                                        KeySeq(DOMAIN e.options), 1)

\* what the code does with the two kinds of value C12 is about: a str "True"
\* is quoted like any str, in all three files; a boolean is lowered by the two
\* smart-home files and embedded as Python prints it by result-visualization
BooleansAsTheCodeEmbedsThem ==
    \A x \in 1..Len(experiments) :
        LET e == experiments[x]
            value == e.options["OPT"]
        IN  ConfigWritten(e) /\ "OPT" \in DOMAIN e.options
            /\ args.template = <<"%", "OPT", "%", " and again ", "%", "OPT", "%">>
            /\ py_str(value) \in {<<"True">>, <<"False">>}
                => files[config_filename(e.name)][1]
                       = CASE value.t = "str" -> "\""
                           [] args.variant = "viz" -> py_str(value)[1]
                           [] OTHER -> lower(py_str(value))[1]

(***************************************************************************)
(* plot() on its own: one call on experiments whose results are loaded.    *)
(* Every run holds one node that reports the plotted metric, so the run    *)
(* scalars are the values of PlotValues themselves.                        *)
(***************************************************************************)
\* the runs of the first experiment
MaxPlotRuns == 3

\* the metric values of the runs: 0.1, 99.9 and -2.5
PlotValues == {Rat(1, 10), Rat(999, 10), Rat(-5, 2)}

PlotMetric == "tsch_join_time_sec"

\* stats_merged.json of n runs with the values of series
PlotTree(series) ==
    [r \in 1..Len(series) |->
        Run(Digits[r], <<Node("2", [m \in {PlotMetric} |-> series[r]])>>)]

\* the trees of at most n runs, and the tree that holds no real run
PlotTrees(n) ==
    {PlotTree(series) : series \in UNION {[1..k -> PlotValues] : k \in 1..n}}
    \cup {<<Run("aggregate-stats", <<Node("2", [m \in {PlotMetric} |-> Num(3)])>>)>>}

LoadedExperiment(variant, x, tree) == [Constructed(variant, x, EmptyDict) EXCEPT !.results = tree]

\* the titles plot() is called with
PlotTitles ==
    {<<"A", "p", "p", "l", "i", "c", "a", "t", "i", "o", "n", " ", "P", "D", "R", ",", " ", "%">>,
     <<"P", "D", "R">>,
     <<"L", "i", "n", "k", " ", "l", "a", "y", "e", "r", " ", "P", "A", "R", ",", " ", "%">>,
     <<"p", "d", "r">>}

PlotChartOf(title) ==
    Chart(title, "extract_metric", PlotMetric, PlotMetric, Num(3600), "none", "mean")

\* one experiment of up to MaxPlotRuns runs, alone or followed by an experiment
\* of one run
InitPlot ==
    /\ args \in [variant : {"static", "viz"}]
    /\ exp = NoExp
    /\ experiments \in
           {<<LoadedExperiment(args.variant, 1, tree)>> : tree \in PlotTrees(MaxPlotRuns)}
           \cup {<<LoadedExperiment(args.variant, 1, tree), LoadedExperiment(args.variant, 2, other)>> :
                    tree \in PlotTrees(MaxPlotRuns), other \in PlotTrees(1)}
    /\ call = NoCall
    /\ ret = NoRet
    /\ Idle

\* plot(title, experiments, extract_metric, [PlotMetric, 3600])
Plot ==
    /\ ret = NoRet
    /\ \E title \in PlotTitles :
       \E p \in {plot(args.variant, title, experiments, "extract_metric",
                      arguments_of(PlotChartOf(title)), "mean")} :
           /\ call' = call_of(args.variant, PlotChartOf(title))
           /\ ret' = p.ret
           /\ figure' = p.figure
           /\ files' = IF p.figure.rendered
                       THEN WriteFile(files, p.figure.savefig, <<"pdf">>)
                       ELSE files
    /\ UNCHANGED <<args, exp, experiments, pc, launched>>

NextPlot == Plot

SpecPlot == InitPlot /\ [][NextPlot]_vars

(***************************************************************************)
(* Claims about plot(), under SpecPlot.  The run scalars are read from     *)
(* ret.results, the exact numbers the extractor returned.                  *)
(***************************************************************************)
RFloor(q) == q[1] \div q[2]

RCeil(q) == -((-q[1]) \div q[2])

\* every run scalar of every experiment
AllScalars == UNION {{ret.results[x][r] : r \in 1..Len(ret.results[x])} :
                        x \in 1..Len(ret.results)}

GlobalMin == CHOOSE v \in AllScalars : \A w \in AllScalars : ~RLess(w, v)

GlobalMax == CHOOSE v \in AllScalars : \A w \in AllScalars : ~RLess(v, w)

NamesPDR(title) ==
    \E x \in 1..(Len(title) - 2) : title[x] = "P" /\ title[x + 1] = "D" /\ title[x + 2] = "R"

\* C13: the y-axis lower bound handed to the renderer is floor(global minimum)
\* - 1 when the title contains "PDR" and exactly 0 for every other title; the
\* upper bound is always ceil(global maximum) + 1.
C13_AxisBounds ==
    figure.rendered =>
        /\ figure.ylim[1] = IF NamesPDR(figure.title) THEN RFloor(GlobalMin) - 1 ELSE 0
        /\ figure.ylim[2] = RCeil(GlobalMax) + 1

\* C13 witness: a chart whose title contains "PDR" was rendered on data whose
\* minimum is -2.5 and maximum 99.9, with the bounds -4 and 101
C13_Witness ==
    /\ figure.rendered
    /\ NamesPDR(figure.title)
    /\ Len(ret.results) = 2
    /\ figure.ylim = <<-4, 101>>

\* a chart whose title does not contain "PDR" gets the lower bound 0 although
\* every value is far from it
ZeroLowerBoundReached ==
    /\ figure.rendered
    /\ ~NamesPDR(figure.title)
    /\ RLess(Num(99), GlobalMin)
    /\ figure.ylim = <<0, 101>>

FloatIsNegative(a) == a.neg /\ a.m # <<>>

FloatIsZero(a) == a.m = <<>>

AllEqual(result) == \A r \in 1..Len(result) : result[r] = result[1]

\* C14: for every experiment both error-bar half-lengths handed to the
\* renderer, mean - min and max - mean, are non-negative, and both are 0
\* exactly when all run scalars of that experiment are equal.
C14_ErrorBarsNonNegative ==
    figure.rendered =>
        \A x \in 1..Len(ret.results) :
            /\ ~FloatIsNegative(figure.yerr_lower[x])
            /\ ~FloatIsNegative(figure.yerr_upper[x])
            /\ (FloatIsZero(figure.yerr_lower[x]) /\ FloatIsZero(figure.yerr_upper[x]))
                   <=> AllEqual(ret.results[x])

\* with at most two runs the mean of an experiment does lie between its
\* minimum and its maximum
C14_HoldsUpToTwoRuns ==
    figure.rendered =>
        \A x \in 1..Len(ret.results) :
            Len(ret.results[x]) <= 2 =>
                /\ ~FloatIsNegative(figure.yerr_lower[x])
                /\ ~FloatIsNegative(figure.yerr_upper[x])
                /\ (FloatIsZero(figure.yerr_lower[x]) /\ FloatIsZero(figure.yerr_upper[x]))
                       <=> AllEqual(ret.results[x])

(***************************************************************************)
(* Claims about main(), under SpecCampaign.                                *)
(***************************************************************************)
\* exp.load_results() has returned for e: self.results is no longer None (a
\* tree and None are compared as texts, being values of different kinds)
IsLoaded(e) == ToString(e.results) # ToString(None)

StatsAbsent(e) == stats_path(e.results_dir) \notin DOMAIN files

\* a chart was handed to the plotting library, or a chart file exists
ChartProduced ==
    \/ figure.rendered
    \/ \E x \in 1..Len(Charts(args.variant)) :
           plot_filename(Charts(args.variant)[x].title) \in DOMAIN files

\* whether main() of this file loads and plots after the runs
LoadsResults == after_run(args.variant) = "load"

\* C15: the simulator is launched on the experiments one at a time in
\* construction order, each once and after its own config file was written;
\* no results are loaded before every run has returned, and they are loaded in
\* order; no chart is produced before every experiment is loaded; and when the
\* simulator left no stats_merged.json for some experiment, main() ends in the
\* FileNotFoundError of load_results and no chart is produced.
C15_CampaignOrdering ==
    /\ Len(launched) <= Len(experiments)
    /\ pc.at = "run" => Len(launched) = pc.i - 1
    /\ \A x \in 1..Len(launched) :
           /\ launched[x] = command_line(config_filename(experiments[x].name))
           /\ ConfigWritten(experiments[x])
    /\ \A x \in 1..Len(experiments) :
           IsLoaded(experiments[x])
               => /\ Len(launched) = Len(experiments)
                  /\ ~StatsAbsent(experiments[x])
                  /\ \A y \in 1..x : IsLoaded(experiments[y])
    /\ pc.at = "load" => \A x \in 1..Len(experiments) : IsLoaded(experiments[x]) <=> x < pc.i
    /\ ChartProduced => \A x \in 1..Len(experiments) : IsLoaded(experiments[x])
    /\ \A x \in 1..Len(experiments) :
           LoadsResults /\ Len(launched) = Len(experiments) /\ StatsAbsent(experiments[x])
               => /\ ~ChartProduced
                  /\ pc.at \in {"load", "failed"}
                  /\ pc.at = "failed" => pc.error = "FileNotFoundError" /\ pc.i <= x

\* C15 witness: both experiments were run, the first was loaded, the second
\* simulator run left no stats_merged.json, and main() ended in the
\* FileNotFoundError of load_results
C15_Witness ==
    /\ Len(experiments) = 2
    /\ Len(launched) = 2
    /\ IsLoaded(experiments[1])
    /\ StatsAbsent(experiments[2])
    /\ pc = Failed(2, "FileNotFoundError")
    /\ ~ChartProduced

\* main() runs to its end: every experiment loaded and the last chart saved
CampaignCompleted ==
    /\ pc.at = "done"
    /\ LoadsResults
    /\ Len(launched) = 2
    /\ \A x \in 1..Len(experiments) : IsLoaded(experiments[x])
    /\ figure.rendered

=============================================================================
